---- MODULE Spec2Model ----
(***************************************************************************)
(* The permanent-configuration registry of firewalld                       *)
(* (src/firewall/core/fw_config.py, class FirewallConfig).                  *)
(*                                                                         *)
(* Six kinds of named objects, each kind with a builtin tier and a custom  *)
(* tier.  Every handler of the class is a pure operator from a registry    *)
(* value and its inputs to a result record (new registry, raised error,    *)
(* returned value, ordered log of the side effects); one action per        *)
(* handler commits the registry of its result.  The filesystem and the external       *)
(* collaborators (reader, writer, validator, settings object) are the      *)
(* environment: what a handler observes of them (a path exists, a read or  *)
(* a write or a rename succeeds) is an input of the call.                  *)
(***************************************************************************)
EXTENDS Naturals, Sequences, FiniteSets, TLC

VARIABLES
    custom,          \* kind -> name -> object: _ipsets, _icmptypes, ...
    builtin,         \* kind -> name -> object: _builtin_ipsets, ...
    firewalld_conf,  \* _firewalld_conf: "none" or "set"
    policies,        \* _policies: "none" or "set"
    direct,          \* _direct: "none" or "set"
    files,           \* the configuration files on disk, where they are tracked
    pending          \* the changed paths not yet reported to update_*_from_path

vars == <<custom, builtin, firewalld_conf, policies, direct, files, pending>>

(* ------------------------------------------------------------------ *)
(* Bounds of the model                                                 *)
(* ------------------------------------------------------------------ *)

\* The registry holds at most MaxObjs entries, all kinds and tiers together,
\* or at most MaxKindObjs entries that are all of one kind.
MaxObjs == 2
MaxKindObjs == 3
\* Where the files are tracked: at most MaxFiles files exist, and at most
\* MaxPending changed paths wait to be reported.
MaxFiles == 2
MaxPending == 1

(* ------------------------------------------------------------------ *)
(* Kinds, names, paths                                                 *)
(* ------------------------------------------------------------------ *)

Kinds == {"ipsets", "helpers", "icmptypes", "services", "zones", "policies"}

\* zones and policies compare paths with startswith, the others with ==
Hier(k) == k \in {"zones", "policies"}

Stems == {"a", "b"}
SubDir == "d"
HierName(s) == SubDir \o "/" \o s
Names == Stems \cup {HierName(s) : s \in Stems}

\* sorted() of the names
NameOrder == <<"a", "b", "d/a", "d/b">>
Sorted(S) == SelectSeq(NameOrder, LAMBDA n : n \in S)

\* directories are sequences of path components
Etc(k) == <<"etc", "firewalld", k>>
Usr(k) == <<"usr", "lib", "firewalld", k>>
Sub(k) == Etc(k) \o <<SubDir>>

StartsWith(p, q) == Len(q) <= Len(p) /\ SubSeq(p, 1, Len(q)) = q

\* "%s.xml" % name
XmlName(n) == n \o ".xml"

\* the components of "<name>.xml" below a directory
XmlComps(n) ==
    IF n \in Stems THEN <<XmlName(n)>>
    ELSE <<SubDir, XmlName(CHOOSE s \in Stems : HierName(s) = n)>>

\* os.path.join(obj.path, obj.filename)
JoinFile(path, filename) == path \o <<filename>>

\* "%s/%s.xml" % (obj.path, obj.name)
NameFile(path, name) == path \o XmlComps(name)

(* ------------------------------------------------------------------ *)
(* Objects                                                             *)
(* ------------------------------------------------------------------ *)

NoRef == ""
\* the opaque payload: a value, and at most one reference to a name of
\* the kind this kind refers to
Confs == {[val |-> 0, ref |-> NoRef], [val |-> 1, ref |-> "a"]}
NoConf == [val |-> 0, ref |-> NoRef]

NoObj == [name |-> "", filename |-> "", path |-> <<>>, builtin |-> FALSE,
          default |-> FALSE, conf |-> NoConf]

export_config(obj) == obj.conf
import_config(obj, conf) == [obj EXCEPT !.conf = conf]

\* the kind whose names the objects of kind k refer to ("" for none)
RefKind(k) ==
    CASE k = "services" -> "helpers"
      [] k = "zones" -> "services"
      [] k = "policies" -> "zones"
      [] OTHER -> ""

\* io_obj.check_config_dict(conf, all_io_objects)
check_config_dict(k, conf, all) ==
    \/ conf.ref = NoRef
    \/ RefKind(k) = ""
    \/ conf.ref \in DOMAIN all[RefKind(k)]

\* the object a reader builds from <path>/<stem>.xml
Reader(path, stem, conf, dflt) ==
    [name |-> stem, filename |-> XmlName(stem), path |-> path,
     builtin |-> ~StartsWith(path, <<"etc", "firewalld">>),
     default |-> dflt, conf |-> conf]

(* ------------------------------------------------------------------ *)
(* The registry value and the result of a handler                      *)
(* ------------------------------------------------------------------ *)

Empty == <<>>
Put(f, n, o) == [m \in DOMAIN f \cup {n} |-> IF m = n THEN o ELSE f[m]]
Drop(f, n) == [m \in DOMAIN f \ {n} |-> f[m]]

Reg == [c |-> custom, b |-> builtin]

__init_vars == [c |-> [k \in Kinds |-> Empty], b |-> [k \in Kinds |-> Empty]]

RECURSIVE SumSizes(_, _)
SumSizes(R, ks) ==
    IF ks = {} THEN 0
    ELSE LET k == CHOOSE x \in ks : TRUE
         IN Cardinality(DOMAIN R.c[k]) + Cardinality(DOMAIN R.b[k])
            + SumSizes(R, ks \ {k})
Size(R) == SumSizes(R, Kinds)

\* error codes of firewall.errors, per kind
Code(k) ==
    CASE k = "ipsets" -> "IPSET"
      [] k = "helpers" -> "HELPER"
      [] k = "icmptypes" -> "ICMPTYPE"
      [] k = "services" -> "SERVICE"
      [] k = "zones" -> "ZONE"
      [] k = "policies" -> "POLICY"
INVALID(k) == "INVALID_" \o Code(k)
BUILTIN(k) == "BUILTIN_" \o Code(k)
NAME_CONFLICT == "NAME_CONFLICT"
NO_DEFAULTS == "NO_DEFAULTS"
INVALID_DIRECTORY == "INVALID_DIRECTORY"
\* raised by the collaborators
INVALID_REF == "INVALID_REF"
IOError == "IOError"
OSError == "OSError"
OK == ""

\* a handler's result: registry after, error raised ("" for none), the
\* returned action and object, and the ordered log of its side effects
Result(R, err, act, obj, log) ==
    [reg |-> R, err |-> err, act |-> act, obj |-> obj, log |-> log]

Raise(R, err, log) == Result(R, err, "", NoObj, log)

(* ------------------------------------------------------------------ *)
(* list / get / add                                                    *)
(* ------------------------------------------------------------------ *)

\* the key set without the builtin keys
get_names_custom_only(R, k) == DOMAIN R.c[k]

get_names(R, k) == DOMAIN R.c[k] \cup DOMAIN R.b[k]

get_list(R, k) == Sorted(get_names(R, k))

\* add_* that files every object in the custom tier
add_obj_custom_always(R, k, obj) ==
    [R EXCEPT !.c[k] = Put(@, obj.name, obj)]

add_obj(R, k, obj) ==
    IF obj.builtin
    THEN [R EXCEPT !.b[k] = Put(@, obj.name, obj)]
    ELSE [R EXCEPT !.c[k] = Put(@, obj.name, obj)]

\* get_* with the two lookups in the other order
get_obj_builtin_first(R, k, name) ==
    IF name \in DOMAIN R.b[k] THEN Result(R, OK, "", R.b[k][name], <<>>)
    ELSE IF name \in DOMAIN R.c[k] THEN Result(R, OK, "", R.c[k][name], <<>>)
    ELSE Raise(R, INVALID(k), <<>>)

get_obj(R, k, name) ==
    IF name \in DOMAIN R.c[k] THEN Result(R, OK, "", R.c[k][name], <<>>)
    ELSE IF name \in DOMAIN R.b[k] THEN Result(R, OK, "", R.b[k][name], <<>>)
    ELSE Raise(R, INVALID(k), <<>>)

get_all_io_objects_dict(R) ==
    [k \in Kinds |-> [n \in get_names(R, k) |-> get_obj(R, k, n).obj]]

(* ------------------------------------------------------------------ *)
(* full_check_config                                                   *)
(* ------------------------------------------------------------------ *)

\* extra_io_objects is a sequence of <<kind, object>> pairs
RECURSIVE Overlay(_, _)
Overlay(all, extra) ==
    IF extra = <<>> THEN all
    ELSE Overlay([all EXCEPT ![extra[1][1]] = Put(@, extra[1][2].name, extra[1][2])],
                 Tail(extra))

\* the keys of all_io_objects[k] in the order .items() gives them: the
\* registered names sorted, then the names only the candidates bring
KeyOrder(R, k, extra) ==
    LET ex == SelectSeq(extra, LAMBDA e : e[1] = k /\ e[2].name \notin get_names(R, k))
    IN get_list(R, k) \o [i \in 1..Len(ex) |-> ex[i][2].name]

CheckOrder == <<"ipsets", "helpers", "icmptypes", "services", "zones", "policies">>

RECURSIVE Visits(_, _, _)
Visits(R, extra, order) ==
    IF order = <<>> THEN <<>>
    ELSE LET ks == KeyOrder(R, order[1], extra)
         IN [i \in 1..Len(ks) |-> <<order[1], ks[i]>>] \o Visits(R, extra, Tail(order))

Min(S) == CHOOSE x \in S : \A y \in S : x <= y

\* the loop that goes on after a validator failure
check_result_runs_on(vs, bad) ==
    [err |-> IF bad = {} THEN OK ELSE INVALID_REF,
     log |-> [i \in 1..Len(vs) |->
                 [op |-> "validate", file |-> vs[i], ok |-> i \notin bad]]]

\* the result of the loop: the validator's error or OK, and the log with
\* one entry per object validated, in order, up to and including the
\* first one that fails (bad: the positions the validator rejects)
check_result(vs, bad) ==
    [err |-> IF bad = {} THEN OK ELSE INVALID_REF,
     log |-> [i \in 1..(IF bad = {} THEN Len(vs) ELSE Min(bad)) |->
                 [op |-> "validate", file |-> vs[i], ok |-> i \notin bad]]]

\* the loop over the kinds and their objects, vs, of the merged view all
check_all(all, vs) ==
    check_result(vs, {i \in 1..Len(vs) :
        ~check_config_dict(vs[i][1], export_config(all[vs[i][1]][vs[i][2]]), all)})

full_check_config(R, extra) ==
    check_all(Overlay(get_all_io_objects_dict(R), extra), Visits(R, extra, CheckOrder))

(* ------------------------------------------------------------------ *)
(* set_*_config, new_*                                                 *)
(* ------------------------------------------------------------------ *)

\* what a call observes of its environment: the writer succeeds (w), the
\* backup rename succeeds (mv), os.remove succeeds (rm)
Envs == [w : BOOLEAN, mv : BOOLEAN, rm : BOOLEAN]

LogAdd(k, name) == [op |-> "add", file |-> <<k, name>>, ok |-> TRUE]
LogDel(k, name) == [op |-> "del", file |-> <<k, name>>, ok |-> TRUE]
LogFile(op, file, ok) == [op |-> op, file |-> file, ok |-> ok]

\* the tail with the add ahead of the check's verdict
add_before_check(R, k, x, env, fc) ==
    IF fc.err # OK THEN Raise(add_obj(R, k, x), fc.err, <<LogAdd(k, x.name)>> \o fc.log)
    ELSE IF ~env.w
    THEN Raise(add_obj(R, k, x), IOError,
               fc.log \o <<LogAdd(k, x.name),
                           LogFile("write", JoinFile(x.path, x.filename), FALSE)>>)
    ELSE Result(add_obj(R, k, x), OK, "", x,
                fc.log \o <<LogAdd(k, x.name),
                            LogFile("write", JoinFile(x.path, x.filename), TRUE)>>)

\* the common tail of set_*_config and new_*, after the check fc: add,
\* write, return
add_write(R, k, x, env, fc) ==
    IF fc.err # OK THEN Raise(R, fc.err, fc.log)
    ELSE IF ~env.w
    THEN Raise(add_obj(R, k, x), IOError,
               fc.log \o <<LogAdd(k, x.name),
                           LogFile("write", JoinFile(x.path, x.filename), FALSE)>>)
    ELSE Result(add_obj(R, k, x), OK, "", x,
                fc.log \o <<LogAdd(k, x.name),
                            LogFile("write", JoinFile(x.path, x.filename), TRUE)>>)

check_add_write(R, k, x, env) ==
    add_write(R, k, x, env, full_check_config(R, <<<<k, x>>>>))

\* set_*_config whose copy of a builtin object keeps the builtin path
set_config_keeps_path(R, k, obj, conf, env) ==
    check_add_write(R, k,
        import_config(IF obj.builtin
                      THEN [obj EXCEPT !.builtin = FALSE,
                                       !.default = IF obj.path # Etc(k) THEN FALSE ELSE @]
                      ELSE obj, conf), env)

\* set_*_config whose copy of a builtin object keeps the builtin flag
set_config_keeps_flag(R, k, obj, conf, env) ==
    check_add_write(R, k,
        import_config(IF obj.builtin THEN [obj EXCEPT !.path = Etc(k)] ELSE obj, conf), env)

\* set_*_config that clears the default flag of every builtin object
set_config_clears_default(R, k, obj, conf, env) ==
    check_add_write(R, k,
        import_config(IF obj.builtin
                      THEN [obj EXCEPT !.path = Etc(k), !.builtin = FALSE,
                                       !.default = FALSE]
                      ELSE obj, conf), env)

set_config(R, k, obj, conf, env) ==
    LET x0 == IF obj.builtin
              THEN [obj EXCEPT !.path = Etc(k), !.builtin = FALSE,
                               !.default = IF obj.path # Etc(k) THEN FALSE ELSE @]
              ELSE obj
        x == import_config(x0, conf)
    IN check_add_write(R, k, x, env)

\* new_* with the name looked up in the custom tier only
new_obj_custom_only(R, k, name, conf, env) ==
    IF name \in DOMAIN R.c[k]
    THEN Raise(R, NAME_CONFLICT, <<>>)
    ELSE LET x == import_config([name |-> name, filename |-> XmlName(name),
                                 path |-> Etc(k), builtin |-> FALSE,
                                 default |-> TRUE, conf |-> NoConf], conf)
         IN check_add_write(R, k, x, env)

\* new_* whose object starts without the default flag
new_obj_not_default(R, k, name, conf, env) ==
    IF name \in DOMAIN R.c[k] \/ name \in DOMAIN R.b[k]
    THEN Raise(R, NAME_CONFLICT, <<>>)
    ELSE check_add_write(R, k,
             import_config([name |-> name, filename |-> XmlName(name),
                            path |-> Etc(k), builtin |-> FALSE,
                            default |-> FALSE, conf |-> NoConf], conf), env)

new_obj(R, k, name, conf, env) ==
    IF name \in DOMAIN R.c[k] \/ name \in DOMAIN R.b[k]
    THEN Raise(R, NAME_CONFLICT, <<>>)
    ELSE LET x == import_config([name |-> name, filename |-> XmlName(name),
                                 path |-> Etc(k), builtin |-> FALSE,
                                 default |-> TRUE, conf |-> NoConf], conf)
         IN check_add_write(R, k, x, env)

(* ------------------------------------------------------------------ *)
(* _remove_*, check_builtin_*, remove_*, rename_*, load_*_defaults     *)
(* ------------------------------------------------------------------ *)

\* the prefix test taken for every kind
InCustomRoot_prefix(k, path) == StartsWith(path, Etc(k))

\* obj.path == ETC  /  obj.path.startswith(ETC)
InCustomRoot(k, path) ==
    IF Hier(k) THEN StartsWith(path, Etc(k)) ELSE path = Etc(k)

_remove(R, k, obj, env) ==
    LET name == NameFile(obj.path, obj.name)
        R1 == [R EXCEPT !.c[k] = Drop(@, obj.name)]
    IN IF obj.name \notin DOMAIN R.c[k] THEN Raise(R, INVALID(k), <<>>)
       ELSE IF ~InCustomRoot(k, obj.path) THEN Raise(R, INVALID_DIRECTORY, <<>>)
       ELSE IF env.mv
       THEN Result(R1, OK, "", NoObj, <<LogFile("move", name, TRUE), LogDel(k, obj.name)>>)
       ELSE IF env.rm
       THEN Result(R1, OK, "", NoObj,
                   <<LogFile("move", name, FALSE), LogFile("remove", name, TRUE),
                     LogDel(k, obj.name)>>)
       ELSE Raise(R, OSError,
                  <<LogFile("move", name, FALSE), LogFile("remove", name, FALSE)>>)

\* check_builtin_* without the test of the default flag
check_builtin_flag_only(k, obj) == obj.builtin

check_builtin(k, obj) == obj.builtin \/ ~obj.default

remove_obj(R, k, obj, env) ==
    IF check_builtin(k, obj) THEN Raise(R, BUILTIN(k), <<>>)
    ELSE _remove(R, k, obj, env)

_copy(R, k, obj, name, env) == new_obj(R, k, name, export_config(obj), env)

\* rename_ipset, rename_icmptype, rename_service, rename_policy_object,
\* rename_helper: copy, then remove
rename_copy_first(R, k, obj, name, env) ==
    LET r1 == _copy(R, k, obj, name, env)
        r2 == _remove(r1.reg, k, obj, env)
    IN IF check_builtin(k, obj) THEN Raise(R, BUILTIN(k), <<>>)
       ELSE IF r1.err # OK THEN r1
       ELSE IF r2.err # OK THEN Raise(r2.reg, r2.err, r1.log \o r2.log)
       ELSE Result(r2.reg, OK, "", r1.obj, r1.log \o r2.log)

\* rename_zone: remove, then create, and re-add the original if that fails
rename_zone(R, k, obj, name, env) ==
    LET obj_conf == export_config(obj)
        r1 == _remove(R, k, obj, env)
        r2 == new_obj(r1.reg, k, name, obj_conf, env)
        r3 == new_obj(r2.reg, k, obj.name, obj_conf, env)
    IN IF check_builtin(k, obj) THEN Raise(R, BUILTIN(k), <<>>)
       ELSE IF r1.err # OK THEN r1
       ELSE IF r2.err = OK THEN Result(r2.reg, OK, "", r2.obj, r1.log \o r2.log)
       ELSE Raise(r3.reg, IF r3.err # OK THEN r3.err ELSE r2.err,
                  r1.log \o r2.log \o r3.log)

rename_obj(R, k, obj, name, env) ==
    IF k = "zones" THEN rename_zone(R, k, obj, name, env)
    ELSE rename_copy_first(R, k, obj, name, env)

\* IO_Object's != : the two objects differ in some field
ObjNeq(x, y) == x # y

load_defaults(R, k, obj, env) ==
    LET r == _remove(R, k, obj, env)
    IN IF obj.name \notin DOMAIN R.c[k] THEN Raise(R, NO_DEFAULTS, <<>>)
       ELSE IF ObjNeq(R.c[k][obj.name], obj) THEN Raise(R, NO_DEFAULTS, <<>>)
       ELSE IF obj.name \notin DOMAIN R.b[k] THEN Raise(R, NO_DEFAULTS, <<>>)
       ELSE IF r.err # OK THEN r
       ELSE Result(r.reg, OK, "", r.reg.b[k][obj.name], r.log)

(* ------------------------------------------------------------------ *)
(* update_*_from_path                                                  *)
(* ------------------------------------------------------------------ *)

\* path == ETC  /  path.startswith(ETC): the reported path is a custom one
IsCustomPath(k, path) ==
    IF Hier(k) THEN StartsWith(path, Etc(k)) ELSE path = Etc(k)

\* the entries the loop over the tier's keys can stop at
Matching(R, k, path, filename) ==
    IF IsCustomPath(k, path)
    THEN {n \in DOMAIN R.c[k] : R.c[k][n].filename = filename}
    ELSE {n \in DOMAIN R.b[k] : R.b[k][n].filename = filename}

\* what a read observes: it fails, or it yields a payload and a default flag
Reads == [ok : BOOLEAN, conf : Confs, dflt : BOOLEAN]

\* the removed-file branch that keeps a builtin entry hidden by a custom one
removed_file_keeps_hidden(R, k, path, filename, pick) ==
    IF Matching(R, k, path, filename) = {} THEN Result(R, OK, "none", NoObj, <<>>)
    ELSE IF IsCustomPath(k, path)
    THEN IF R.c[k][pick].name \in DOMAIN R.b[k]
         THEN Result([R EXCEPT !.c[k] = Drop(@, pick)], OK, "update",
                     R.b[k][R.c[k][pick].name], <<LogDel(k, pick)>>)
         ELSE Result([R EXCEPT !.c[k] = Drop(@, pick)], OK, "remove", R.c[k][pick],
                     <<LogDel(k, pick)>>)
    ELSE IF R.b[k][pick].name \notin DOMAIN R.c[k]
    THEN Result([R EXCEPT !.b[k] = Drop(@, pick)], OK, "remove", R.b[k][pick],
                <<LogDel(k, pick)>>)
    ELSE Result(R, OK, "none", NoObj, <<>>)

\* the file is gone; pick is the matching key the loop meets first
removed_file(R, k, path, filename, pick) ==
    IF Matching(R, k, path, filename) = {} THEN Result(R, OK, "none", NoObj, <<>>)
    ELSE IF IsCustomPath(k, path)
    THEN LET obj == R.c[k][pick]
             R1 == [R EXCEPT !.c[k] = Drop(@, pick)]
         IN IF obj.name \in DOMAIN R1.b[k]
            THEN Result(R1, OK, "update", R1.b[k][obj.name], <<LogDel(k, pick)>>)
            ELSE Result(R1, OK, "remove", obj, <<LogDel(k, pick)>>)
    ELSE LET obj == R.b[k][pick]
             R1 == [R EXCEPT !.b[k] = Drop(@, pick)]
         IN IF obj.name \notin DOMAIN R1.c[k]
            THEN Result(R1, OK, "remove", obj, <<LogDel(k, pick)>>)
            ELSE Result(R1, OK, "none", NoObj, <<LogDel(k, pick)>>)

\* the name of the reader kept for every file
combined_name_bare(k, path, obj) == obj

\* zones and policies: a file below the custom root is named <dir>/<stem>
combined_name(k, path, obj) ==
    IF Hier(k) /\ StartsWith(path, Etc(k)) /\ Len(path) > Len(Etc(k))
    THEN [obj EXCEPT !.name = path[Len(path)] \o "/" \o obj.name]
    ELSE obj

\* the loaded-file branch that stores the object with the reader's default flag
loaded_file_reader_default(R, k, path, obj0) ==
    IF combined_name(k, path, obj0).name \notin DOMAIN R.b[k]
       /\ combined_name(k, path, obj0).name \notin DOMAIN R.c[k]
    THEN Result(add_obj(R, k, combined_name(k, path, obj0)), OK, "new",
                combined_name(k, path, obj0),
                <<LogAdd(k, combined_name(k, path, obj0).name)>>)
    ELSE IF IsCustomPath(k, path)
    THEN IF combined_name(k, path, obj0).name \in DOMAIN R.c[k]
         THEN Result([R EXCEPT !.c[k] = Put(@, combined_name(k, path, obj0).name,
                                            combined_name(k, path, obj0))],
                     OK, "update", combined_name(k, path, obj0),
                     <<LogAdd(k, combined_name(k, path, obj0).name)>>)
         ELSE Result(R, OK, "update", combined_name(k, path, obj0), <<>>)
    ELSE IF combined_name(k, path, obj0).name \in DOMAIN R.b[k]
    THEN Result([R EXCEPT !.b[k] = Put(@, obj0.name, obj0)], OK,
                IF obj0.name \notin DOMAIN R.c[k] THEN "update" ELSE "none",
                IF obj0.name \notin DOMAIN R.c[k] THEN obj0 ELSE NoObj,
                <<LogAdd(k, obj0.name)>>)
    ELSE Result(R, OK, "none", NoObj, <<>>)

\* the loaded-file branch that leaves a builtin entry hidden by a custom
\* one as it was
loaded_file_keeps_hidden(R, k, path, obj0) ==
    IF combined_name(k, path, obj0).name \notin DOMAIN R.b[k]
       /\ combined_name(k, path, obj0).name \notin DOMAIN R.c[k]
    THEN Result(add_obj(R, k, combined_name(k, path, obj0)), OK, "new",
                combined_name(k, path, obj0),
                <<LogAdd(k, combined_name(k, path, obj0).name)>>)
    ELSE IF IsCustomPath(k, path)
    THEN IF combined_name(k, path, obj0).name \in DOMAIN R.c[k]
         THEN Result([R EXCEPT !.c[k] = Put(@, combined_name(k, path, obj0).name,
                        [combined_name(k, path, obj0) EXCEPT !.default =
                            R.c[k][combined_name(k, path, obj0).name].default])],
                     OK, "update",
                     [combined_name(k, path, obj0) EXCEPT !.default =
                         R.c[k][combined_name(k, path, obj0).name].default],
                     <<LogAdd(k, combined_name(k, path, obj0).name)>>)
         ELSE Result(R, OK, "update", combined_name(k, path, obj0), <<>>)
    ELSE IF obj0.name \in DOMAIN R.b[k] /\ obj0.name \notin DOMAIN R.c[k]
    THEN Result([R EXCEPT !.b[k] = Put(@, obj0.name, obj0)], OK, "update", obj0,
                <<LogAdd(k, obj0.name)>>)
    ELSE Result(R, OK, "none", NoObj, <<>>)

\* the file exists and was read as obj0
loaded_file(R, k, path, obj0) ==
    LET obj == combined_name(k, path, obj0)
        n == obj.name
    IN IF n \notin DOMAIN R.b[k] /\ n \notin DOMAIN R.c[k]
       THEN Result(add_obj(R, k, obj), OK, "new", obj, <<LogAdd(k, n)>>)
       ELSE IF IsCustomPath(k, path)
       THEN IF n \in DOMAIN R.c[k]
            THEN LET o2 == [obj EXCEPT !.default = R.c[k][n].default]
                 IN Result([R EXCEPT !.c[k] = Put(@, n, o2)], OK, "update", o2,
                           <<LogAdd(k, n)>>)
            ELSE Result(R, OK, "update", obj, <<>>)
       ELSE IF n \in DOMAIN R.b[k]
       THEN LET R1 == [R EXCEPT !.b[k] = Put(Drop(@, n), n, obj)]
            IN IF n \notin DOMAIN R.c[k]
               THEN Result(R1, OK, "update", obj, <<LogAdd(k, n)>>)
               ELSE Result(R1, OK, "none", NoObj, <<LogAdd(k, n)>>)
       ELSE Result(R, OK, "none", NoObj, <<>>)

\* update_*_from_path that forgets the object of a file it cannot read
update_from_path_forgets_unreadable(R, k, path, stem, exists, rd, pick) ==
    IF ~exists THEN removed_file(R, k, path, XmlName(stem), pick)
    ELSE IF ~rd.ok
    THEN Result([R EXCEPT !.c[k] = Drop(@, stem), !.b[k] = Drop(@, stem)],
                OK, "none", NoObj, <<>>)
    ELSE loaded_file(R, k, path, Reader(path, stem, rd.conf, rd.dflt))

update_from_path(R, k, path, stem, exists, rd, pick) ==
    IF ~exists THEN removed_file(R, k, path, XmlName(stem), pick)
    ELSE IF ~rd.ok THEN Result(R, OK, "none", NoObj, <<>>)
    ELSE loaded_file(R, k, path, Reader(path, stem, rd.conf, rd.dflt))

(* ------------------------------------------------------------------ *)
(* _reset_defaults, restore_settings_dict, reset_defaults, cleanup     *)
(* ------------------------------------------------------------------ *)

ResetOrder == <<"zones", "policies", "ipsets", "services", "helpers", "icmptypes">>
RestoreOrder == <<"icmptypes", "helpers", "services", "ipsets", "policies", "zones">>

Pos(order, k) == CHOOSE i \in 1..Len(order) : order[i] = k

\* the restore loops that reach new_* when the object is not registered
\* ("elif current_obj is None"); the other loops test the snapshot
\* object itself against None
RestoreCreates(k) == k \in {"icmptypes", "helpers", "zones"}

NoFail == [k |-> "", n |-> "", pre |-> {}]

\* what a reset observes: env.fail names the custom object whose backup
\* rename and os.remove both fail, and the entries of its kind the loop
\* met before it; mv is the outcome of the other backup renames; cw and
\* cw2 are the outcomes of the settings write of the reset and of the
\* restore; w is the outcome of the writer during the restore
Fails(R) ==
    {NoFail} \cup
    UNION {UNION {{[k |-> k, n |-> n, pre |-> pre] :
                      pre \in SUBSET (DOMAIN R.c[k] \ {n})} :
                  n \in DOMAIN R.c[k]} :
           k \in Kinds}

\* the loops with the policies left out of the order
Dropped_without_policies(R, k, f) ==
    IF k = "policies" THEN {}
    ELSE IF f = NoFail \/ Pos(ResetOrder, k) < Pos(ResetOrder, f.k) THEN DOMAIN R.c[k]
    ELSE IF k = f.k THEN f.pre
    ELSE {}

\* the custom entries of kind k that the reset drops
Dropped(R, k, f) ==
    IF f = NoFail \/ Pos(ResetOrder, k) < Pos(ResetOrder, f.k) THEN DOMAIN R.c[k]
    ELSE IF k = f.k THEN f.pre
    ELSE {}

\* the log of dropping the custom entries ns of kind k
RECURSIVE DropLog(_, _, _, _)
DropLog(R, k, ns, mv) ==
    IF ns = <<>> THEN <<>>
    ELSE LET file == JoinFile(R.c[k][ns[1]].path, R.c[k][ns[1]].filename)
             one == IF mv
                    THEN <<LogFile("move", file, TRUE), LogDel(k, ns[1])>>
                    ELSE <<LogFile("move", file, FALSE),
                           LogFile("remove", file, TRUE), LogDel(k, ns[1])>>
         IN one \o DropLog(R, k, Tail(ns), mv)

RECURSIVE ResetLog(_, _, _)
ResetLog(R, env, order) ==
    IF order = <<>> THEN <<>>
    ELSE LET k == order[1]
             f == env.fail
             failed == IF k = f.k
                       THEN LET file == JoinFile(R.c[k][f.n].path, R.c[k][f.n].filename)
                            IN <<LogFile("move", file, FALSE),
                                 LogFile("remove", file, FALSE)>>
                       ELSE <<>>
         IN DropLog(R, k, Sorted(Dropped(R, k, f)), env.mv) \o failed
            \o ResetLog(R, env, Tail(order))

LogConf(op, ok) == [op |-> op, file |-> <<"firewalld.conf">>, ok |-> ok]

\* result: the registry and the settings object after, the error raised
_reset_defaults(R, fw, env) ==
    LET R1 == [R EXCEPT !.c = [k \in Kinds |->
                 [n \in DOMAIN R.c[k] \ Dropped(R, k, env.fail) |-> R.c[k][n]]]]
        lg == ResetLog(R, env, ResetOrder)
    IN IF env.fail # NoFail THEN [reg |-> R1, fw |-> fw, err |-> OSError, log |-> lg]
       ELSE IF fw = "none"
       THEN [reg |-> R1, fw |-> fw, err |-> "AttributeError", log |-> lg]
       ELSE [reg |-> R1, fw |-> fw,
             err |-> IF env.cw THEN OK ELSE IOError,
             log |-> lg \o <<LogConf("set_defaults", TRUE), LogConf("write", env.cw)>>]

\* the (kind, name) pairs of the snapshot in the order the loops take them
RECURSIVE RestoreItems(_, _)
RestoreItems(settings, order) ==
    IF order = <<>> THEN <<>>
    ELSE LET ns == Sorted(DOMAIN settings[order[1]])
         IN [i \in 1..Len(ns) |-> <<order[1], ns[i]>>] \o RestoreItems(settings, Tail(order))

\* one turn of a restore loop, for the snapshot object n of kind k
restore_one(R, k, n, settings, current, env) ==
    LET snap == settings[k][n]
        known == n \in DOMAIN current[k]
    IN IF known /\ ObjNeq(current[k][n], snap)
       THEN set_config(R, k, current[k][n], export_config(snap), env)
       ELSE IF ~known /\ RestoreCreates(k)
       THEN new_obj(R, k, snap.name, export_config(snap), env)
       ELSE Result(R, OK, "", NoObj, <<>>)

\* the loops stop at the first turn that raises
RECURSIVE Replay(_, _, _, _, _, _)
ReplayRest(r, items, settings, current, env, log) ==
    IF r.err # OK THEN [reg |-> r.reg, err |-> r.err, log |-> log \o r.log]
    ELSE Replay(r.reg, items, settings, current, env, log \o r.log)

Replay(R, items, settings, current, env, log) ==
    IF items = <<>> THEN [reg |-> R, err |-> OK, log |-> log]
    ELSE ReplayRest(restore_one(R, items[1][1], items[1][2], settings, current, env),
                    Tail(items), settings, current, env, log)

restore_settings_dict(R, fw, settings, conf, env) ==
    LET current_config == get_all_io_objects_dict(R)
        r == Replay(R, RestoreItems(settings, RestoreOrder), settings,
                    current_config, env, <<>>)
    IN IF r.err # OK THEN [reg |-> r.reg, fw |-> fw, err |-> r.err, log |-> r.log]
       ELSE IF conf = "none" THEN [reg |-> r.reg, fw |-> fw, err |-> OK, log |-> r.log]
       ELSE [reg |-> r.reg, fw |-> conf,
             err |-> IF env.cw2 THEN OK ELSE IOError,
             log |-> r.log \o <<LogConf("write", env.cw2)>>]

\* orig: the error of _reset_defaults; rerr: the error of the restore;
\* err: the error the caller gets
reset_defaults(R, fw, env) ==
    LET backup_config_dict == get_all_io_objects_dict(R)
        backup_firewall_conf == fw
        r == _reset_defaults(R, fw, env)
        s == restore_settings_dict(r.reg, r.fw, backup_config_dict,
                                   backup_firewall_conf, env)
    IN IF r.err = OK
       THEN [reg |-> r.reg, fw |-> r.fw, err |-> OK, orig |-> OK, rerr |-> OK,
             restored |-> FALSE, log |-> r.log]
       ELSE [reg |-> s.reg, fw |-> s.fw,
             err |-> IF s.err # OK THEN s.err ELSE r.err,
             orig |-> r.err, rerr |-> s.err, restored |-> TRUE,
             log |-> r.log \o s.log]

\* the kinds whose dictionaries cleanup() empties entry by entry
CleanupLoops == {"ipsets", "icmptypes", "services", "zones", "helpers"}

\* cleanup() without its last statement, the call of __init_vars()
cleanup_loops_only(R) ==
    [c |-> [k \in Kinds |-> IF k \in CleanupLoops THEN Empty ELSE R.c[k]],
     b |-> [k \in Kinds |-> IF k \in CleanupLoops THEN Empty ELSE R.b[k]]]

\* cleanup(): every object is cleaned up and dropped, then __init_vars()
cleanup(R) == __init_vars

(* ------------------------------------------------------------------ *)
(* The state machine                                                   *)
(* ------------------------------------------------------------------ *)

UsedKinds(R) == {k \in Kinds : get_names(R, k) # {}}

Bounded(R) ==
    \/ Size(R) <= MaxObjs
    \/ Size(R) <= MaxKindObjs /\ Cardinality(UsedKinds(R)) <= 1

\* the handler's registry R becomes the state, when it is within the bounds
Commit(R) ==
    \E r \in {R} :
        /\ Bounded(r)
        /\ custom' = r.c
        /\ builtin' = r.b

Init ==
    /\ custom = __init_vars.c
    /\ builtin = __init_vars.b
    /\ firewalld_conf = "none"
    /\ policies = "none"
    /\ direct = "none"
    /\ files = {}
    /\ pending = {}

\* the directories of kind k: the start-up loader reads them and the
\* watcher reports the paths in them
Dirs(k) == {Etc(k), Usr(k)} \cup (IF Hier(k) THEN {Sub(k)} ELSE {})

\* the objects the start-up loader hands to add_*
LoaderObjs(k) ==
    {combined_name(k, p, Reader(p, s, c, TRUE)) :
        p \in Dirs(k), s \in Stems, c \in Confs}

\* the objects a caller holds: the registered ones
Pool(k) ==
    {custom[k][n] : n \in DOMAIN custom[k]} \cup {builtin[k][n] : n \in DOMAIN builtin[k]}

\* the outcomes a call can observe
FileEnvs == {e \in Envs : e.w /\ (e.mv => e.rm)}
WriteEnvs == {e \in Envs : e.mv /\ e.rm}
AllEnvs == {e \in Envs : e.mv => e.rm}
OkEnv == [w |-> TRUE, mv |-> TRUE, rm |-> TRUE]
OkReads == {r \in Reads : r.ok}
BadRead == [ok |-> FALSE, conf |-> NoConf, dflt |-> FALSE]
\* what a read of a file in path can yield: the default flag of an object
\* read from a builtin directory is never looked at, and is taken as set
ReadsOf(path) ==
    {BadRead} \cup {r \in OkReads : r.dflt \/ StartsWith(path, <<"etc", "firewalld">>)}
\* the key a removed file's loop can stop at ("" when nothing matches)
Picks(R, k, path, stem) ==
    IF Matching(R, k, path, XmlName(stem)) = {} THEN {""}
    ELSE Matching(R, k, path, XmlName(stem))

Add(k, obj) ==
    /\ Commit(add_obj(Reg, k, obj))
    /\ UNCHANGED <<firewalld_conf, policies, direct, files, pending>>

Create(k, name, conf, env) ==
    /\ Commit(new_obj(Reg, k, name, conf, env).reg)
    /\ UNCHANGED <<firewalld_conf, policies, direct, files, pending>>

SetConfig(k, obj, conf, env) ==
    /\ Commit(set_config(Reg, k, obj, conf, env).reg)
    /\ UNCHANGED <<firewalld_conf, policies, direct, files, pending>>

Remove(k, obj, env) ==
    /\ Commit(remove_obj(Reg, k, obj, env).reg)
    /\ UNCHANGED <<firewalld_conf, policies, direct, files, pending>>

Rename(k, obj, name, env) ==
    /\ Commit(rename_obj(Reg, k, obj, name, env).reg)
    /\ UNCHANGED <<firewalld_conf, policies, direct, files, pending>>

LoadDefaults(k, obj, env) ==
    /\ Commit(load_defaults(Reg, k, obj, env).reg)
    /\ UNCHANGED <<firewalld_conf, policies, direct, files, pending>>

\* the watcher reports a path that does not exist
UpdateRemoved(k, path, stem, pick) ==
    /\ Commit(update_from_path(Reg, k, path, stem, FALSE, BadRead, pick).reg)
    /\ UNCHANGED <<firewalld_conf, policies, direct, files, pending>>

\* the watcher reports a path that exists
UpdateLoaded(k, path, stem, rd) ==
    /\ Commit(update_from_path(Reg, k, path, stem, TRUE, rd, "").reg)
    /\ UNCHANGED <<firewalld_conf, policies, direct, files, pending>>

ResetEnvs(R, fw) ==
    {e \in [w : BOOLEAN, mv : BOOLEAN, rm : {TRUE}, cw : BOOLEAN, cw2 : BOOLEAN,
            fail : Fails(R)] :
        \* the outcomes the call never observes are fixed
        /\ (e.fail # NoFail \/ fw = "none") => e.cw
        /\ (e.fail = NoFail /\ e.cw /\ fw # "none") => (e.w /\ e.cw2)
        /\ fw = "none" => e.cw2}

ResetDefaults(env) ==
    \E r \in {reset_defaults(Reg, firewalld_conf, env)} :
        /\ Commit(r.reg)
        /\ firewalld_conf' = r.fw
        /\ UNCHANGED <<policies, direct, files, pending>>

Cleanup ==
    /\ Commit(cleanup(Reg))
    /\ firewalld_conf' = "none"
    /\ policies' = "none"
    /\ direct' = "none"
    /\ UNCHANGED <<files, pending>>

SetFirewalldConf ==
    /\ firewalld_conf' = "set"
    /\ UNCHANGED <<custom, builtin, policies, direct, files, pending>>

SetPolicies ==
    /\ policies' = "set"
    /\ UNCHANGED <<custom, builtin, firewalld_conf, direct, files, pending>>

SetDirect ==
    /\ direct' = "set"
    /\ UNCHANGED <<custom, builtin, firewalld_conf, policies, files, pending>>

Next ==
    \/ \E k \in Kinds : \E obj \in LoaderObjs(k) : Add(k, obj)
    \/ \E k \in Kinds : \E name \in Stems : \E conf \in Confs : \E env \in WriteEnvs :
          Create(k, name, conf, env)
    \/ \E k \in Kinds : \E obj \in Pool(k) : \E conf \in Confs : \E env \in WriteEnvs :
          SetConfig(k, obj, conf, env)
    \/ \E k \in Kinds : \E obj \in Pool(k) : \E env \in FileEnvs : Remove(k, obj, env)
    \/ \E k \in Kinds : \E obj \in Pool(k) : \E name \in Stems : \E env \in AllEnvs :
          Rename(k, obj, name, env)
    \/ \E k \in Kinds : \E obj \in Pool(k) : \E env \in FileEnvs : LoadDefaults(k, obj, env)
    \/ \E k \in Kinds : \E path \in Dirs(k) : \E stem \in Stems :
          \E pick \in Picks(Reg, k, path, stem) : UpdateRemoved(k, path, stem, pick)
    \/ \E k \in Kinds : \E path \in Dirs(k) : \E stem \in Stems :
          \E rd \in ReadsOf(path) : UpdateLoaded(k, path, stem, rd)
    \/ \E env \in ResetEnvs(Reg, firewalld_conf) : ResetDefaults(env)
    \/ Cleanup
    \/ SetFirewalldConf

Spec == Init /\ [][Next]_vars

(* ------------------------------------------------------------------ *)
(* The registry with its three references: the loader registers        *)
(* objects, the settings object, the lockdown policies and the direct  *)
(* configuration are set, and cleanup() tears everything down          *)
(* ------------------------------------------------------------------ *)

NextTeardown ==
    \/ \E k \in Kinds : \E obj \in LoaderObjs(k) : Add(k, obj)
    \/ SetFirewalldConf
    \/ SetPolicies
    \/ SetDirect
    \/ Cleanup

SpecTeardown == Init /\ [][NextTeardown]_vars

(* ------------------------------------------------------------------ *)
(* The registry beside a tracked filesystem: files are created,        *)
(* modified and deleted outside the registry, and the watcher reports   *)
(* every changed path to update_*_from_path                             *)
(* ------------------------------------------------------------------ *)

\* a file: its kind, directory and stem, and whether a read of it succeeds
FileKey(f) == [k |-> f.k, path |-> f.path, stem |-> f.stem]
FileKeys ==
    UNION {{[k |-> k, path |-> p, stem |-> st] : p \in Dirs(k), st \in Stems} : k \in Kinds}
FileAt(key) == {f \in files : FileKey(f) = key}

\* what update_*_from_path observes of the file at key: os.path.exists and
\* the reader's outcome
FileReads(key) ==
    IF FileAt(key) = {} \/ \E f \in FileAt(key) : ~f.ok THEN {BadRead}
    ELSE {r \in ReadsOf(key.path) : r.ok /\ r.conf = NoConf}

FileCreated(key, ok) ==
    /\ FileAt(key) = {}
    /\ Cardinality(files) < MaxFiles
    /\ Cardinality(pending \cup {key}) <= MaxPending
    /\ files' = files \cup {[k |-> key.k, path |-> key.path, stem |-> key.stem, ok |-> ok]}
    /\ pending' = pending \cup {key}
    /\ UNCHANGED <<custom, builtin, firewalld_conf, policies, direct>>

FileModified(f, ok) ==
    /\ Cardinality(pending \cup {FileKey(f)}) <= MaxPending
    /\ files' = (files \ {f}) \cup {[f EXCEPT !.ok = ok]}
    /\ pending' = pending \cup {FileKey(f)}
    /\ UNCHANGED <<custom, builtin, firewalld_conf, policies, direct>>

FileDeleted(f) ==
    /\ Cardinality(pending \cup {FileKey(f)}) <= MaxPending
    /\ files' = files \ {f}
    /\ pending' = pending \cup {FileKey(f)}
    /\ UNCHANGED <<custom, builtin, firewalld_conf, policies, direct>>

\* the watcher's callback for the changed path key
Reported(key, rd, pick) ==
    /\ Commit(update_from_path(Reg, key.k, key.path, key.stem, FileAt(key) # {},
                               rd, pick).reg)
    /\ pending' = pending \ {key}
    /\ UNCHANGED <<firewalld_conf, policies, direct, files>>

NextSync ==
    \/ \E key \in FileKeys : \E ok \in BOOLEAN : FileCreated(key, ok)
    \/ \E f \in files : \E ok \in BOOLEAN : FileModified(f, ok)
    \/ \E f \in files : FileDeleted(f)
    \/ \E key \in pending : \E rd \in FileReads(key) :
          \E pick \in Picks(Reg, key.k, key.path, key.stem) : Reported(key, rd, pick)

SpecSync == Init /\ [][NextSync]_vars

(* ------------------------------------------------------------------ *)
(* Properties                                                          *)
(* ------------------------------------------------------------------ *)

InList(R, k, n) == \E i \in 1..Len(get_list(R, k)) : get_list(R, k)[i] = n

\* C1: for every kind and every name held in both tiers, get returns the
\* custom entry; and whenever remove of that custom entry succeeds, get
\* then returns the builtin entry and the name is still listed.
C1_CustomShadowsBuiltin ==
    \A k \in Kinds : \A n \in DOMAIN custom[k] \cap DOMAIN builtin[k] :
        /\ get_obj(Reg, k, n).err = OK
        /\ get_obj(Reg, k, n).obj = custom[k][n]
        /\ \A env \in FileEnvs :
              remove_obj(Reg, k, custom[k][n], env).err = OK =>
                  /\ get_obj(remove_obj(Reg, k, custom[k][n], env).reg, k, n).err = OK
                  /\ get_obj(remove_obj(Reg, k, custom[k][n], env).reg, k, n).obj
                        = builtin[k][n]
                  /\ InList(remove_obj(Reg, k, custom[k][n], env).reg, k, n)

\* a name is held in both tiers with different objects, and the custom one
\* is removed successfully, which uncovers the builtin one
C1_Witness ==
    \E k \in Kinds : \E n \in DOMAIN custom[k] \cap DOMAIN builtin[k] :
        /\ custom[k][n] # builtin[k][n]
        /\ ~custom[k][n].builtin /\ custom[k][n].default
        /\ remove_obj(Reg, k, custom[k][n], OkEnv).err = OK
        /\ n \notin DOMAIN remove_obj(Reg, k, custom[k][n], OkEnv).reg.c[k]
        /\ get_obj(remove_obj(Reg, k, custom[k][n], OkEnv).reg, k, n).obj = builtin[k][n]

\* C2: remove and rename, called with an object whose builtin flag is set
\* or whose default flag is clear, raise BUILTIN_<kind> and do nothing
\* else: the registry is as before, no file operation was made, nothing
\* was created.
C2_BuiltinProtected ==
    \A k \in Kinds : \A obj \in Pool(k) :
        (obj.builtin \/ ~obj.default) =>
            \A env \in AllEnvs :
                /\ remove_obj(Reg, k, obj, env) = Raise(Reg, BUILTIN(k), <<>>)
                /\ \A name \in Names :
                      rename_obj(Reg, k, obj, name, env) = Raise(Reg, BUILTIN(k), <<>>)

\* a registered custom object with the default flag clear, and a registered
\* builtin object: remove and rename of both are refused
C2_Witness ==
    \E k \in Kinds : \E obj \in Pool(k) : \E other \in Pool(k) :
        /\ ~obj.builtin /\ ~obj.default /\ obj.name \in DOMAIN custom[k]
        /\ other.builtin
        /\ remove_obj(Reg, k, obj, OkEnv).err = BUILTIN(k)
        /\ rename_obj(Reg, k, other, "b", OkEnv).err = BUILTIN(k)

\* C3: create with a name that either tier holds raises NAME_CONFLICT, with
\* the registry as before, no validation and no write.
C3_NameConflict ==
    \A k \in Kinds : \A name \in get_names(Reg, k) :
        \A conf \in Confs : \A env \in AllEnvs :
            new_obj(Reg, k, name, conf, env) = Raise(Reg, NAME_CONFLICT, <<>>)

\* a name held by the builtin tier only is refused
C3_Witness ==
    \E k \in Kinds : \E name \in DOMAIN builtin[k] \ DOMAIN custom[k] :
        \E conf \in Confs :
            /\ new_obj(Reg, k, name, conf, OkEnv).err = NAME_CONFLICT
            /\ new_obj(Reg, k, name, conf, OkEnv).reg = Reg

\* the validator rejects an object of the merged view that holds x for kind k
Rejects(k, x) ==
    \E kk \in Kinds :
        \E n \in DOMAIN Overlay(get_all_io_objects_dict(Reg), <<<<k, x>>>>)[kk] :
            ~check_config_dict(kk,
                Overlay(get_all_io_objects_dict(Reg), <<<<k, x>>>>)[kk][n].conf,
                Overlay(get_all_io_objects_dict(Reg), <<<<k, x>>>>))

\* the call failed in the check: the validator's error, the registry as
\* before, and nothing but validations done
FailedInCheck(r) ==
    /\ r.err = INVALID_REF
    /\ r.reg = Reg
    /\ \A i \in 1..Len(r.log) : r.log[i].op = "validate"

\* every validation of the call came before the candidate was registered
ChecksBeforeAdd(r) ==
    \A i \in 1..Len(r.log) : \A j \in 1..Len(r.log) :
        (r.log[i].op = "validate" /\ r.log[j].op = "add") => i < j

\* C4: when the validator rejects an object of the merged view, create and
\* setConfig fail with the validator's error, the registry as before and
\* no write; and no call registers its candidate before the check ran.
C4_ValidationFailure ==
    \A k \in Kinds : \A conf \in Confs : \A env \in WriteEnvs :
        /\ \A name \in Names \ get_names(Reg, k) :
              /\ ChecksBeforeAdd(new_obj(Reg, k, name, conf, env))
              /\ Rejects(k, [name |-> name, conf |-> conf]) =>
                    FailedInCheck(new_obj(Reg, k, name, conf, env))
        /\ \A obj \in Pool(k) :
              /\ ChecksBeforeAdd(set_config(Reg, k, obj, conf, env))
              /\ Rejects(k, [obj EXCEPT !.conf = conf]) =>
                    FailedInCheck(set_config(Reg, k, obj, conf, env))

\* a candidate that names an object no kind holds is refused, in a create
\* and in a setConfig of an object that was valid
C4_Witness ==
    \E k \in Kinds : \E conf \in Confs : \E obj \in Pool(k) :
        /\ ~Rejects(k, obj)
        /\ Rejects(k, [obj EXCEPT !.conf = conf])
        /\ FailedInCheck(set_config(Reg, k, obj, conf, OkEnv))
        /\ \E name \in Names \ get_names(Reg, k) :
              FailedInCheck(new_obj(Reg, k, name, conf, OkEnv))

\* the registry, the listing and the content of every name are those of Reg
SameContent(R) ==
    \A k \in Kinds :
        /\ get_list(R, k) = get_list(Reg, k)
        /\ \A n \in get_names(Reg, k) :
              export_config(get_obj(R, k, n).obj) = export_config(get_obj(Reg, k, n).obj)

\* C5: when resetToDefaults fails after custom objects were dropped, then
\* once the replay of the snapshot has run, every kind lists the names it
\* listed before the call and every name has the content it had; every
\* dropped custom object is registered again.
C5_FailedResetRestores ==
    \A env \in ResetEnvs(Reg, firewalld_conf) :
        (/\ reset_defaults(Reg, firewalld_conf, env).restored
         /\ reset_defaults(Reg, firewalld_conf, env).rerr = OK
         /\ _reset_defaults(Reg, firewalld_conf, env).reg # Reg)
        => SameContent(reset_defaults(Reg, firewalld_conf, env).reg)

\* the directories below the custom root that the watcher reports
CustomDirs(k) == {Etc(k)} \cup (IF Hier(k) THEN {Sub(k)} ELSE {})

\* C6: updateFromPath for a deleted file below the custom root, when the
\* custom tier holds the entry of that file and the builtin tier holds an
\* entry of the same name, drops that custom entry and returns "update"
\* with the builtin object; get then returns the builtin object and the
\* builtin tier is as before.
C6_DeletedCustomUncoversBuiltin ==
    \A k \in Kinds : \A path \in CustomDirs(k) : \A stem \in Stems :
        \A n \in DOMAIN custom[k] \cap DOMAIN builtin[k] :
            JoinFile(custom[k][n].path, custom[k][n].filename) = JoinFile(path, XmlName(stem))
            => \A pick \in Picks(Reg, k, path, stem) :
                  /\ update_from_path(Reg, k, path, stem, FALSE, BadRead, pick).act = "update"
                  /\ update_from_path(Reg, k, path, stem, FALSE, BadRead, pick).obj
                        = builtin[k][n]
                  /\ n \notin DOMAIN
                        update_from_path(Reg, k, path, stem, FALSE, BadRead, pick).reg.c[k]
                  /\ get_obj(update_from_path(Reg, k, path, stem, FALSE, BadRead, pick).reg,
                             k, n).obj = builtin[k][n]
                  /\ update_from_path(Reg, k, path, stem, FALSE, BadRead, pick).reg.b = builtin

\* after the create r1 of name, the report r2 that its file is gone gives
\* "remove" with the created object and leaves the name unknown
RemovedAfterCreate(k, name, r1, r2) ==
    /\ r2.act = "remove"
    /\ r2.obj = r1.obj
    /\ ~InList(r2.reg, k, name)
    /\ get_obj(r2.reg, k, name).err = INVALID(k)

\* C7: after create(name, conf) succeeds, updateFromPath for <name>.xml in
\* the custom root, the file being gone, returns "remove" with the created
\* object; the name is then not listed and get raises INVALID_<kind>.
C7_CreateThenFileDeleted ==
    \A k \in Kinds : \A name \in Stems \ get_names(Reg, k) : \A conf \in Confs :
        new_obj(Reg, k, name, conf, OkEnv).err = OK =>
            \A pick \in Picks(new_obj(Reg, k, name, conf, OkEnv).reg, k, Etc(k), name) :
                RemovedAfterCreate(k, name, new_obj(Reg, k, name, conf, OkEnv),
                    update_from_path(new_obj(Reg, k, name, conf, OkEnv).reg,
                                     k, Etc(k), name, FALSE, BadRead, pick))

\* the report r registered obj as new in the tier of the root of path and
\* changed nothing else
RegisteredAsNew(k, path, obj, r) ==
    /\ r.err = OK
    /\ r.act = "new"
    /\ r.obj = obj
    /\ InList(r.reg, k, obj.name)
    /\ IF StartsWith(path, <<"etc", "firewalld">>)
       THEN r.reg = [Reg EXCEPT !.c[k] = Put(@, obj.name, obj)]
       ELSE r.reg = [Reg EXCEPT !.b[k] = Put(@, obj.name, obj)]

\* C8: updateFromPath for an existing readable file whose object name is in
\* neither tier returns "new" with the object read, registers it in the
\* tier of the root of the reported path, lists its name, and changes no
\* other entry.
C8_UnknownFileIsNew ==
    \A k \in Kinds : \A path \in {Etc(k), Usr(k), Sub(k)} : \A stem \in Stems :
        \A rd \in OkReads :
            combined_name(k, path, Reader(path, stem, rd.conf, rd.dflt)).name
                \notin get_names(Reg, k)
            => RegisteredAsNew(k, path,
                   combined_name(k, path, Reader(path, stem, rd.conf, rd.dflt)),
                   update_from_path(Reg, k, path, stem, TRUE, rd, ""))

\* with entries registered, a file of an unknown name in the builtin
\* directory and one in the custom directory are taken as new, each in its
\* tier
C8_Witness ==
    \E k \in Kinds : \E stem \in Stems \ get_names(Reg, k) : \E rd \in OkReads :
        /\ custom[k] # Empty /\ builtin[k] # Empty
        /\ update_from_path(Reg, k, Usr(k), stem, TRUE, rd, "").act = "new"
        /\ stem \in DOMAIN update_from_path(Reg, k, Usr(k), stem, TRUE, rd, "").reg.b[k]
        /\ stem \notin DOMAIN update_from_path(Reg, k, Usr(k), stem, TRUE, rd, "").reg.c[k]
        /\ update_from_path(Reg, k, Etc(k), stem, TRUE, rd, "").act = "new"
        /\ stem \in DOMAIN update_from_path(Reg, k, Etc(k), stem, TRUE, rd, "").reg.c[k]
        /\ stem \notin DOMAIN update_from_path(Reg, k, Etc(k), stem, TRUE, rd, "").reg.b[k]

\* the call wrote before it registered, and registered nothing when the
\* write failed
WroteBeforeAdd(r, env) ==
    /\ ~env.w => r.reg = Reg
    /\ \A i \in 1..Len(r.log) : \A j \in 1..Len(r.log) :
          (r.log[i].op = "write" /\ r.log[j].op = "add") => i < j

\* C9: create and setConfig validate, then write, then register: the
\* candidate is not in the registry before the writer has finished, and a
\* failing writer leaves the registry as before the call.
C9_WriteBeforeCommit ==
    \A k \in Kinds : \A conf \in Confs : \A env \in WriteEnvs :
        /\ \A name \in Names \ get_names(Reg, k) :
              WroteBeforeAdd(new_obj(Reg, k, name, conf, env), env)
        /\ \A obj \in Pool(k) :
              WroteBeforeAdd(set_config(Reg, k, obj, conf, env), env)

\* C10: when the reset fails, the error the caller gets is the error of the
\* reset; no error of the replay reaches the caller or stops the replay.
C10_OriginalErrorReraised ==
    \A env \in ResetEnvs(Reg, firewalld_conf) :
        reset_defaults(Reg, firewalld_conf, env).orig # OK =>
            /\ reset_defaults(Reg, firewalld_conf, env).rerr = OK
            /\ reset_defaults(Reg, firewalld_conf, env).err
                  = reset_defaults(Reg, firewalld_conf, env).orig

\* the log says that file left its live path: renamed or removed
FileGone(log, file) ==
    \E i \in 1..Len(log) :
        log[i].file = file /\ log[i].ok /\ log[i].op \in {"move", "remove"}

\* the log ends with set_defaults() and then a successful write() of the settings
SettingsReset(log) ==
    /\ Len(log) >= 2
    /\ log[Len(log) - 1] = LogConf("set_defaults", TRUE)
    /\ log[Len(log)] = LogConf("write", TRUE)

\* the result r of a reset that raised nothing
ResetDone(r) ==
    /\ \A k \in Kinds :
          /\ r.reg.c[k] = Empty
          /\ get_list(r.reg, k) = Sorted(DOMAIN builtin[k])
          /\ \A n \in DOMAIN builtin[k] :
                get_obj(r.reg, k, n).err = OK /\ get_obj(r.reg, k, n).obj = builtin[k][n]
          /\ \A n \in DOMAIN custom[k] :
                FileGone(r.log, JoinFile(custom[k][n].path, custom[k][n].filename))
    /\ r.reg.b = builtin
    /\ SettingsReset(r.log)

\* C11: when resetToDefaults raises nothing, every custom tier is empty,
\* every kind lists the builtin names and get returns the builtin entries,
\* the builtin tiers are as before, every formerly custom file was renamed
\* or removed, and the settings had set_defaults() and then write().
C11_ResetEmptiesCustom ==
    \A env \in ResetEnvs(Reg, firewalld_conf) :
        reset_defaults(Reg, firewalld_conf, env).err = OK =>
            ResetDone(reset_defaults(Reg, firewalld_conf, env))

\* a reset that succeeds on a registry with custom entries, one of them
\* shadowing a builtin entry, with the backup renames failing
C11_Witness ==
    \E k \in Kinds : \E n \in DOMAIN custom[k] \cap DOMAIN builtin[k] :
        \E env \in ResetEnvs(Reg, firewalld_conf) :
            /\ ~env.mv
            /\ reset_defaults(Reg, firewalld_conf, env).err = OK
            /\ reset_defaults(Reg, firewalld_conf, env).reg.c[k] = Empty

\* the result r of a call left the builtin tiers alone
BuiltinKept(r) == r.reg.b = builtin

\* the result r of a successful setConfig of the builtin object obj
Materialized(k, obj, conf, r) ==
    /\ obj.name \in DOMAIN r.reg.c[k]
    /\ ~r.reg.c[k][obj.name].builtin
    /\ r.reg.c[k][obj.name].name = obj.name
    /\ export_config(r.reg.c[k][obj.name]) = conf
    /\ get_obj(r.reg, k, obj.name).obj = r.reg.c[k][obj.name]
    /\ r.obj = r.reg.c[k][obj.name]

\* C12: create, setConfig, remove, rename and loadDefaults never change a
\* builtin tier, whether they succeed or fail; a successful setConfig on a
\* builtin object stores a new object with builtin clear under the same
\* name in the custom tier, and get returns it.
C12_BuiltinTierFrame ==
    \A k \in Kinds : \A conf \in Confs : \A env \in AllEnvs :
        /\ \A name \in Names : BuiltinKept(new_obj(Reg, k, name, conf, env))
        /\ \A obj \in Pool(k) :
              /\ BuiltinKept(set_config(Reg, k, obj, conf, env))
              /\ BuiltinKept(remove_obj(Reg, k, obj, env))
              /\ BuiltinKept(load_defaults(Reg, k, obj, env))
              /\ \A name \in Names : BuiltinKept(rename_obj(Reg, k, obj, name, env))
              /\ (obj.builtin /\ set_config(Reg, k, obj, conf, env).err = OK) =>
                    Materialized(k, obj, conf, set_config(Reg, k, obj, conf, env))

\* a builtin object without a custom entry is edited: the custom tier gets
\* the edited copy and the builtin entry stays
C12_Witness ==
    \E k \in Kinds : \E n \in DOMAIN builtin[k] \ DOMAIN custom[k] : \E conf \in Confs :
        /\ conf # export_config(builtin[k][n])
        /\ set_config(Reg, k, builtin[k][n], conf, OkEnv).err = OK
        /\ n \in DOMAIN set_config(Reg, k, builtin[k][n], conf, OkEnv).reg.c[k]
        /\ set_config(Reg, k, builtin[k][n], conf, OkEnv).reg.b[k][n] = builtin[k][n]

\* the name the registry gives the object of file f
FileName(f) == combined_name(f.k, f.path, Reader(f.path, f.stem, NoConf, TRUE)).name

\* the names of the readable files of kind k below the custom root (c) or
\* outside it
FileNames(k, c) ==
    {FileName(f) : f \in {g \in files : g.k = k /\ g.ok /\ StartsWith(g.path, Etc(k)) = c}}

InSync ==
    \A k \in Kinds :
        /\ DOMAIN custom[k] = FileNames(k, TRUE)
        /\ DOMAIN builtin[k] = FileNames(k, FALSE)

\* C13: once every changed path has been reported to updateFromPath, a name
\* is in the custom tier exactly when a readable file for it exists below
\* the custom root, and in the builtin tier exactly when one exists below
\* the builtin root.  Stated for the states whose files are all readable.
C13_RegistryFollowsFiles ==
    (pending = {} /\ \A f \in files : f.ok) => InSync

\* obj is a registered custom object that remove accepts
Removable(k, obj) ==
    /\ obj.name \in DOMAIN custom[k]
    /\ custom[k][obj.name] = obj
    /\ ~obj.builtin /\ obj.default
    /\ StartsWith(obj.path, Etc(k))

\* the call r raised nothing and dropped the custom entry of name
DroppedEntry(k, name, r) == r.err = OK /\ name \notin DOMAIN r.reg.c[k]

\* C14: when the backup rename fails, remove, loadDefaults and
\* resetToDefaults still succeed and drop the custom entry, whatever
\* becomes of the direct delete of the live file (the file may not exist).
C14_BackupFailureNotFatal ==
    /\ \A k \in Kinds : \A obj \in Pool(k) : \A env \in Envs :
          (~env.mv /\ Removable(k, obj)) =>
              /\ DroppedEntry(k, obj.name, remove_obj(Reg, k, obj, env))
              /\ obj.name \in DOMAIN builtin[k] =>
                    DroppedEntry(k, obj.name, load_defaults(Reg, k, obj, env))
    /\ \A env \in ResetEnvs(Reg, firewalld_conf) :
          reset_defaults(Reg, firewalld_conf, env).orig # OSError

\* C15: in every reachable state and for every kind, every custom entry has
\* a path under the kind's custom root and every builtin entry has a path
\* under the kind's builtin root.
C15_PathsMatchTiers ==
    \A k \in Kinds :
        /\ \A n \in DOMAIN custom[k] : StartsWith(custom[k][n].path, Etc(k))
        /\ \A n \in DOMAIN builtin[k] : StartsWith(builtin[k][n].path, Usr(k))

\* a custom entry read from a subdirectory beside a builtin entry, whose
\* edit gives a custom object in the custom root
C15_Witness ==
    \E k \in Kinds : \E n \in DOMAIN builtin[k] \ DOMAIN custom[k] :
        \E m \in DOMAIN custom[k] : \E conf \in Confs :
            /\ custom[k][m].path = Sub(k)
            /\ builtin[k][n].path = Usr(k)
            /\ set_config(Reg, k, builtin[k][n], conf, OkEnv).err = OK
            /\ set_config(Reg, k, builtin[k][n], conf, OkEnv).reg.c[k][n].path = Etc(k)

\* the sequence l is strictly increasing in the order of the names
Increasing(l) ==
    \A i \in 1..Len(l) : \A j \in 1..Len(l) :
        i < j => Pos(NameOrder, l[i]) < Pos(NameOrder, l[j])

\* C16: for every kind, list() is the sorted, duplicate-free union of the
\* key sets of the two tiers; get succeeds exactly for the listed names and
\* raises INVALID_<kind> for every other name; neither changes any state.
C16_ListAndGet ==
    \A k \in Kinds :
        /\ Increasing(get_list(Reg, k))
        /\ {get_list(Reg, k)[i] : i \in 1..Len(get_list(Reg, k))}
              = DOMAIN custom[k] \cup DOMAIN builtin[k]
        /\ \A name \in Names \cup {"c"} :
              /\ get_obj(Reg, k, name).reg = Reg
              /\ IF name \in DOMAIN custom[k] \cup DOMAIN builtin[k]
                 THEN /\ get_obj(Reg, k, name).err = OK
                      /\ get_obj(Reg, k, name).obj.name = name
                 ELSE get_obj(Reg, k, name) = Raise(Reg, INVALID(k), <<>>)

\* a kind with a name in both tiers, a name in the builtin tier only and a
\* name in neither
C16_Witness ==
    \E k \in Kinds : \E n \in DOMAIN custom[k] \cap DOMAIN builtin[k] :
        \E m \in DOMAIN builtin[k] \ DOMAIN custom[k] :
            /\ Len(get_list(Reg, k)) = 2
            /\ get_obj(Reg, k, m).err = OK
            /\ get_obj(Reg, k, "d/a").err = INVALID(k)

\* C17: updateFromPath for an existing file whose read fails returns no
\* action, raises nothing and leaves the registry as before: every name,
\* that of the file included, resolves as it did.
C17_UnreadableFileIgnored ==
    \A k \in Kinds : \A path \in {Etc(k), Usr(k), Sub(k)} : \A stem \in Stems :
        /\ update_from_path(Reg, k, path, stem, TRUE, BadRead, "")
              = Result(Reg, OK, "none", NoObj, <<>>)
        /\ \A n \in Names :
              get_obj(update_from_path(Reg, k, path, stem, TRUE, BadRead, "").reg, k, n).obj
                  = get_obj(Reg, k, n).obj

\* the file of a registered custom object and the file of a registered
\* builtin object have become unreadable; both objects stay
C17_Witness ==
    \E k \in Kinds : \E n \in DOMAIN custom[k] \cap Stems : \E m \in DOMAIN builtin[k] :
        /\ custom[k][n].path = Etc(k) /\ custom[k][n].filename = XmlName(n)
        /\ builtin[k][m].path = Usr(k) /\ builtin[k][m].filename = XmlName(m)
        /\ update_from_path(Reg, k, Etc(k), n, TRUE, BadRead, "").act = "none"
        /\ n \in DOMAIN update_from_path(Reg, k, Etc(k), n, TRUE, BadRead, "").reg.c[k]
        /\ m \in DOMAIN update_from_path(Reg, k, Usr(k), m, TRUE, BadRead, "").reg.b[k]

\* loadDefaults has nothing to revert to: no custom entry of the name, a
\* custom entry that differs from obj, or no builtin entry of the name
NoDefaults(k, obj) ==
    \/ obj.name \notin DOMAIN custom[k]
    \/ custom[k][obj.name] # obj
    \/ obj.name \notin DOMAIN builtin[k]

\* the result r of a loadDefaults that reverted obj to the builtin entry
Reverted(k, obj, r) ==
    /\ r.err = OK
    /\ obj.name \notin DOMAIN r.reg.c[k]
    /\ r.obj = builtin[k][obj.name]
    /\ get_obj(r.reg, k, obj.name).obj = builtin[k][obj.name]
    /\ r.reg.b = builtin

\* C18: loadDefaults(obj) raises NO_DEFAULTS and changes nothing when the
\* custom tier has no entry named obj.name, or that entry differs from obj,
\* or the builtin tier has no entry of the name; otherwise it drops the
\* custom entry and returns the builtin entry, which get then returns.
C18_LoadDefaults ==
    \A k \in Kinds : \A obj \in Pool(k) : \A env \in AllEnvs :
        IF NoDefaults(k, obj)
        THEN load_defaults(Reg, k, obj, env) = Raise(Reg, NO_DEFAULTS, <<>>)
        ELSE Reverted(k, obj, load_defaults(Reg, k, obj, env))

\* the result r of the report that the file of the builtin entry n is gone
BuiltinDropped(k, n, r) ==
    /\ r.err = OK
    /\ r.reg.b = [builtin EXCEPT ![k] = Drop(@, n)]
    /\ r.reg.c = custom
    /\ IF n \notin DOMAIN custom[k]
       THEN r.act = "remove" /\ r.obj = builtin[k][n]
       ELSE /\ r.act = "none" /\ r.obj = NoObj
            /\ get_obj(r.reg, k, n).obj = custom[k][n]
            /\ get_obj(Reg, k, n).obj = custom[k][n]

\* C19: updateFromPath for a deleted file under the builtin root, when the
\* builtin tier holds the entry of that file, drops that entry; it returns
\* "remove" with the object when no custom entry has the name, and no
\* action when one has, get returning that custom object before and after.
C19_DeletedBuiltinFile ==
    \A k \in Kinds : \A stem \in Stems : \A n \in DOMAIN builtin[k] :
        JoinFile(builtin[k][n].path, builtin[k][n].filename)
            = JoinFile(Usr(k), XmlName(stem))
        => \A pick \in Picks(Reg, k, Usr(k), stem) :
              BuiltinDropped(k, n,
                  update_from_path(Reg, k, Usr(k), stem, FALSE, BadRead, pick))

\* a builtin entry hidden by a custom one and a builtin entry that is not:
\* the files of both are gone
C19_Witness ==
    \E k \in Kinds : \E n \in DOMAIN builtin[k] \cap DOMAIN custom[k] :
        \E m \in DOMAIN builtin[k] \ DOMAIN custom[k] :
            /\ update_from_path(Reg, k, Usr(k), n, FALSE, BadRead, n).act = "none"
            /\ n \notin DOMAIN update_from_path(Reg, k, Usr(k), n, FALSE, BadRead, n).reg.b[k]
            /\ update_from_path(Reg, k, Usr(k), m, FALSE, BadRead, m).act = "remove"
            /\ m \notin DOMAIN update_from_path(Reg, k, Usr(k), m, FALSE, BadRead, m).reg.b[k]

\* the result r of the report of the file read as obj, whose name the
\* custom tier holds: obj took the entry's place and kept its default flag
CustomReplaced(k, obj, r) ==
    /\ r.err = OK
    /\ r.act = "update"
    /\ r.obj = [obj EXCEPT !.default = custom[k][obj.name].default]
    /\ r.reg.c = [custom EXCEPT ![k] = Put(@, obj.name, r.obj)]
    /\ r.reg.b = builtin

\* C20: updateFromPath for an existing readable file under the custom root
\* whose name the custom tier holds returns "update" with the object read,
\* which replaces the custom entry and has the default flag of the entry it
\* replaced, whatever the reader set; the builtin tier is unchanged.
C20_CustomFileReloaded ==
    \A k \in Kinds : \A path \in CustomDirs(k) : \A stem \in Stems : \A rd \in OkReads :
        combined_name(k, path, Reader(path, stem, rd.conf, rd.dflt)).name
            \in DOMAIN custom[k]
        => CustomReplaced(k, combined_name(k, path, Reader(path, stem, rd.conf, rd.dflt)),
                          update_from_path(Reg, k, path, stem, TRUE, rd, ""))

\* a custom entry is reloaded with other content and the other default flag
C20_Witness ==
    \E k \in Kinds : \E stem \in DOMAIN custom[k] \cap Stems : \E rd \in OkReads :
        /\ rd.dflt # custom[k][stem].default
        /\ rd.conf # custom[k][stem].conf
        /\ update_from_path(Reg, k, Etc(k), stem, TRUE, rd, "").act = "update"
        /\ update_from_path(Reg, k, Etc(k), stem, TRUE, rd, "").reg.c[k][stem].conf = rd.conf
        /\ update_from_path(Reg, k, Etc(k), stem, TRUE, rd, "").reg.c[k][stem].default
              = custom[k][stem].default

\* the result r of the report of the builtin file read as obj, whose name
\* the builtin tier holds
BuiltinReplaced(k, obj, r) ==
    /\ r.err = OK
    /\ r.reg.b = [builtin EXCEPT ![k] = Put(@, obj.name, obj)]
    /\ r.reg.c = custom
    /\ IF obj.name \notin DOMAIN custom[k]
       THEN r.act = "update" /\ r.obj = obj
       ELSE /\ r.act = "none" /\ r.obj = NoObj
            /\ get_obj(r.reg, k, obj.name).obj = custom[k][obj.name]

\* C21: updateFromPath for an existing readable file under the builtin root
\* whose name the builtin tier holds replaces the builtin entry by the
\* object read; it returns "update" with that object when no custom entry
\* has the name, and no action when one has, get still returning the
\* unchanged custom object.
C21_BuiltinFileReloaded ==
    \A k \in Kinds : \A stem \in DOMAIN builtin[k] \cap Stems : \A rd \in OkReads :
        BuiltinReplaced(k, Reader(Usr(k), stem, rd.conf, rd.dflt),
                        update_from_path(Reg, k, Usr(k), stem, TRUE, rd, ""))

\* a hidden builtin entry and one that is not hidden are reloaded with
\* other content
C21_Witness ==
    \E k \in Kinds : \E n \in DOMAIN builtin[k] \cap DOMAIN custom[k] :
        \E m \in DOMAIN builtin[k] \ DOMAIN custom[k] : \E rd \in OkReads :
            /\ rd.conf # builtin[k][n].conf /\ rd.conf # builtin[k][m].conf
            /\ update_from_path(Reg, k, Usr(k), n, TRUE, rd, "").act = "none"
            /\ update_from_path(Reg, k, Usr(k), n, TRUE, rd, "").reg.b[k][n].conf = rd.conf
            /\ update_from_path(Reg, k, Usr(k), m, TRUE, rd, "").act = "update"
            /\ update_from_path(Reg, k, Usr(k), m, TRUE, rd, "").reg.b[k][m].conf = rd.conf

\* the custom tier holds no entry whose file is path/stem.xml
NoEntryOfFile(k, path, stem) ==
    \A n \in DOMAIN custom[k] :
        JoinFile(custom[k][n].path, custom[k][n].filename) # JoinFile(path, XmlName(stem))

\* the second delivery r2 of a deletion event, after the first left R1
SecondIsNoop(R1, r2) == r2.act = "none" /\ r2.err = OK /\ r2.reg = R1

\* C22: a deletion event for a path under the custom root for which the
\* custom tier holds no entry returns no action and changes nothing; and a
\* deletion event delivered twice returns no action the second time and
\* leaves the registry as the first delivery left it.
C22_StaleDeletionIgnored ==
    \A k \in Kinds : \A path \in CustomDirs(k) : \A stem \in Stems :
        \A pick \in Picks(Reg, k, path, stem) :
            /\ NoEntryOfFile(k, path, stem) =>
                  update_from_path(Reg, k, path, stem, FALSE, BadRead, pick)
                      = Result(Reg, OK, "none", NoObj, <<>>)
            /\ \A pick2 \in Picks(update_from_path(Reg, k, path, stem, FALSE, BadRead,
                                                   pick).reg, k, path, stem) :
                  SecondIsNoop(
                      update_from_path(Reg, k, path, stem, FALSE, BadRead, pick).reg,
                      update_from_path(
                          update_from_path(Reg, k, path, stem, FALSE, BadRead, pick).reg,
                          k, path, stem, FALSE, BadRead, pick2))

\* the order of the kinds by reference dependency
DependencyOrder == <<"ipsets", "helpers", "icmptypes", "services", "zones", "policies">>

\* the object a create call hands to the validation
Candidate(k, name, conf) ==
    [name |-> name, filename |-> XmlName(name), path |-> Etc(k), builtin |-> FALSE,
     default |-> TRUE, conf |-> conf]

\* the merged view with candidate x of kind k0: its names and objects
MergedNames(k0, x, k) == get_names(Reg, k) \cup (IF k = k0 THEN {x.name} ELSE {})
MergedObj(k0, x, k, n) == IF k = k0 /\ n = x.name THEN x ELSE get_obj(Reg, k, n).obj
Merged(k0, x) == [k \in Kinds |-> [n \in MergedNames(k0, x, k) |-> MergedObj(k0, x, k, n)]]
MergedKeys(k0, x) == UNION {{<<k, n>> : n \in MergedNames(k0, x, k)} : k \in Kinds}

\* the validator's verdict on the object v = <<kind, name>> of the merged view
Accepts(k0, x, v) ==
    check_config_dict(v[1], export_config(MergedObj(k0, x, v[1], v[2])), Merged(k0, x))

\* the validations log, ended by err, of fullCheck with candidate x of kind k0
FullCheckRight(k0, x, log, err) ==
    /\ \A i \in 1..Len(log) :
          /\ log[i].op = "validate"
          /\ log[i].file \in MergedKeys(k0, x)
          /\ log[i].ok = Accepts(k0, x, log[i].file)
          /\ i < Len(log) => log[i].ok
    /\ \A i, j \in 1..Len(log) :
          i < j => /\ log[i].file # log[j].file
                   /\ Pos(DependencyOrder, log[i].file[1])
                         <= Pos(DependencyOrder, log[j].file[1])
    /\ IF \A i \in 1..Len(log) : log[i].ok
       THEN err = OK /\ {log[i].file : i \in 1..Len(log)} = MergedKeys(k0, x)
       ELSE /\ err # OK
            /\ \A v \in MergedKeys(k0, x) :
                  Pos(DependencyOrder, v[1]) < Pos(DependencyOrder, log[Len(log)].file[1])
                  => v \in {log[i].file : i \in 1..Len(log)}

\* C23: fullCheck validates the objects of the merged view (the registered
\* objects with the candidate overlaid by name) kind after kind in the
\* order ipsets, helpers, icmptypes, services, zones, policies, each once;
\* it stops at the first object the validator rejects and otherwise covers
\* every object; a create that it rejects leaves both tiers as they were.
C23_FullCheckOrder ==
    \A k \in Kinds : \A name \in Stems : \A conf \in Confs :
        /\ FullCheckRight(k, Candidate(k, name, conf),
               full_check_config(Reg, <<<<k, Candidate(k, name, conf)>>>>).log,
               full_check_config(Reg, <<<<k, Candidate(k, name, conf)>>>>).err)
        /\ full_check_config(Reg, <<<<k, Candidate(k, name, conf)>>>>).err # OK
           => new_obj(Reg, k, name, conf, OkEnv).reg = Reg

\* a candidate replaces the registered object of its name and is rejected
\* while objects of later kinds wait, and another one passes after objects
\* of two kinds were validated
C23_Witness ==
    /\ \E k \in Kinds : \E name \in get_names(Reg, k) : \E conf \in Confs :
          /\ full_check_config(Reg, <<<<k, Candidate(k, name, conf)>>>>).err # OK
          /\ Accepts(k, get_obj(Reg, k, name).obj, <<k, name>>)
          /\ Len(full_check_config(Reg, <<<<k, Candidate(k, name, conf)>>>>).log)
                < Cardinality(MergedKeys(k, Candidate(k, name, conf)))
    /\ \E k \in Kinds : \E name \in Stems : \E conf \in Confs :
          /\ full_check_config(Reg, <<<<k, Candidate(k, name, conf)>>>>).err = OK
          /\ Len(full_check_config(Reg, <<<<k, Candidate(k, name, conf)>>>>).log) >= 2
          /\ conf.ref # NoRef /\ RefKind(k) # ""

\* the order of the replay that restores an object before any object of a
\* kind that may refer to it
ReplayOrder == <<"ipsets", "helpers", "icmptypes", "services", "policies", "zones">>

\* the replay s of the snapshot of the registry, run on the registry R0
\* the failed reset left
ReplayRight(R0, s) ==
    /\ \A i, j \in 1..Len(s.log) :
          (i < j /\ s.log[i].op = "add" /\ s.log[j].op = "add")
          => Pos(ReplayOrder, s.log[i].file[1]) <= Pos(ReplayOrder, s.log[j].file[1])
    /\ s.err = OK =>
          \A k \in Kinds : \A n \in get_names(Reg, k) :
              \/ /\ n \in get_names(R0, k)
                 /\ get_obj(R0, k, n).obj = get_obj(Reg, k, n).obj
              \/ /\ n \in DOMAIN s.reg.c[k]
                 /\ export_config(s.reg.c[k][n]) = export_config(get_obj(Reg, k, n).obj)
                 /\ LogAdd(k, n) \in {s.log[i] : i \in 1..Len(s.log)}

\* C24: the replay of the snapshot takes the kinds in the order ipsets,
\* helpers, icmptypes, services, policies, zones; every snapshot object
\* that is not registered is created again and every one that differs
\* from the registered object is stored again with the snapshot's content.
C24_ReplayOrder ==
    \A env \in ResetEnvs(Reg, firewalld_conf) :
        reset_defaults(Reg, firewalld_conf, env).restored
        => ReplayRight(_reset_defaults(Reg, firewalld_conf, env).reg,
                       restore_settings_dict(_reset_defaults(Reg, firewalld_conf, env).reg,
                                             _reset_defaults(Reg, firewalld_conf, env).fw,
                                             get_all_io_objects_dict(Reg),
                                             firewalld_conf, env))

\* the rename r of obj to name did all of its work
Renamed(k, obj, name, r) ==
    /\ obj.name \notin DOMAIN r.reg.c[k]
    /\ name \in DOMAIN r.reg.c[k]
    /\ export_config(r.reg.c[k][name]) = export_config(obj)
    /\ ~r.reg.c[k][name].builtin /\ r.reg.c[k][name].default

\* C25: the rename of an eligible custom object either succeeds, the old
\* name then being gone from the custom tier and the new one registered
\* there with the object's content, builtin unset and default set, or it
\* fails and every kind lists the names it listed before, each with the
\* content it had.
C25_RenameAllOrNothing ==
    \A k \in Kinds : \A obj \in Pool(k) : \A name \in Names \ {obj.name} :
        \A env \in AllEnvs :
            Removable(k, obj) =>
                IF rename_obj(Reg, k, obj, name, env).err = OK
                THEN Renamed(k, obj, name, rename_obj(Reg, k, obj, name, env))
                ELSE SameContent(rename_obj(Reg, k, obj, name, env).reg)

\* the objects a caller may hand to the removal: the registered ones, and
\* stale ones whose name or path no longer fits the registry
Held(k) ==
    {[o EXCEPT !.name = n, !.path = p] :
        o \in Pool(k), n \in Names, p \in {Etc(k), Usr(k), Sub(k)}}

\* path does not match the custom root of kind k
OffCustomRoot(k, path) ==
    IF k \in {"zones", "policies"} THEN ~StartsWith(path, Etc(k)) ELSE path # Etc(k)

\* C26: the custom removal fails with the kind's INVALID error when the
\* custom tier has no entry of the object's name, otherwise with
\* INVALID_DIRECTORY when the object's path does not match the custom root
\* (equal for the flat kinds, a prefix for zones and policies); in both
\* cases no file is touched and the registry is unchanged, and in no other
\* case is one of the two errors raised.
C26_RemovalGuards ==
    \A k \in Kinds : \A obj \in Held(k) : \A env \in AllEnvs :
        IF obj.name \notin DOMAIN custom[k]
        THEN _remove(Reg, k, obj, env) = Raise(Reg, INVALID(k), <<>>)
        ELSE IF OffCustomRoot(k, obj.path)
        THEN _remove(Reg, k, obj, env) = Raise(Reg, INVALID_DIRECTORY, <<>>)
        ELSE _remove(Reg, k, obj, env).err \notin {INVALID(k), INVALID_DIRECTORY}

\* an unregistered name with a foreign path, a registered name of a flat
\* kind with a path below the custom root, and a registered policy or zone
\* with such a path, which is removed
C26_Witness ==
    /\ \E k \in Kinds : \E obj \in Held(k) :
          /\ obj.name \notin DOMAIN custom[k] /\ obj.path = Usr(k)
          /\ _remove(Reg, k, obj, OkEnv).err = INVALID(k)
    /\ \E k \in Kinds \ {"zones", "policies"} : \E obj \in Held(k) :
          /\ obj.name \in DOMAIN custom[k] /\ obj.path = Sub(k)
          /\ _remove(Reg, k, obj, OkEnv).err = INVALID_DIRECTORY
    /\ \E k \in {"zones", "policies"} : \E obj \in Held(k) :
          /\ obj.name \in DOMAIN custom[k] /\ obj.path = Sub(k)
          /\ _remove(Reg, k, obj, OkEnv).err = OK
          /\ obj.name \notin DOMAIN _remove(Reg, k, obj, OkEnv).reg.c[k]

\* the objects a caller may hand to set_config: the registered ones with
\* any flags and any of the three directories as path
Handed(k) ==
    {[o EXCEPT !.builtin = b, !.default = d, !.path = p] :
        o \in Pool(k), b \in BOOLEAN, d \in BOOLEAN, p \in {Etc(k), Usr(k), Sub(k)}}

\* x is what set_config(obj, conf) has to store
StoredRight(k, obj, conf, x) ==
    /\ x.name = obj.name /\ export_config(x) = conf
    /\ ~x.builtin
    /\ x.default = (IF obj.builtin /\ obj.path # Etc(k) THEN FALSE ELSE obj.default)
    /\ ~obj.builtin => x.path = obj.path /\ x.filename = obj.filename

\* C27: a setConfig(obj, conf) that the validation lets pass stores its
\* result in the custom tier under obj.name with builtin unset; the default
\* flag of the result is unset exactly when obj is builtin with a path
\* other than the custom root and is obj's flag otherwise; path and
\* filename of an obj that is not builtin are carried over; the builtin
\* tier is unchanged and a call that raises nothing returns the result.
C27_SetConfigFlags ==
    \A k \in Kinds : \A obj \in Handed(k) : \A conf \in Confs : \A env \in WriteEnvs :
        set_config(Reg, k, obj, conf, env).err \in {OK, IOError} =>
            /\ obj.name \in DOMAIN set_config(Reg, k, obj, conf, env).reg.c[k]
            /\ StoredRight(k, obj, conf,
                           set_config(Reg, k, obj, conf, env).reg.c[k][obj.name])
            /\ set_config(Reg, k, obj, conf, env).reg.b = builtin
            /\ set_config(Reg, k, obj, conf, env).err = OK =>
                  set_config(Reg, k, obj, conf, env).obj
                      = set_config(Reg, k, obj, conf, env).reg.c[k][obj.name]

\* a registered builtin object is edited and loses the default flag, and a
\* registered custom object in a subdirectory of the custom root is stored
\* again and keeps its path and default flag
C27_Witness ==
    /\ \E k \in Kinds : \E n \in DOMAIN builtin[k] \ DOMAIN custom[k] : \E conf \in Confs :
          /\ builtin[k][n].default /\ conf # builtin[k][n].conf
          /\ set_config(Reg, k, builtin[k][n], conf, OkEnv).err = OK
          /\ ~set_config(Reg, k, builtin[k][n], conf, OkEnv).reg.c[k][n].default
    /\ \E k \in Kinds : \E n \in DOMAIN custom[k] : \E conf \in Confs :
          /\ custom[k][n].default /\ custom[k][n].path = Sub(k)
          /\ set_config(Reg, k, custom[k][n], conf, OkEnv).err = OK
          /\ set_config(Reg, k, custom[k][n], conf, OkEnv).reg.c[k][n].default
          /\ set_config(Reg, k, custom[k][n], conf, OkEnv).reg.c[k][n].path = Sub(k)

\* the registry after the create r of name in kind k: the old one with
\* one more custom entry
CreatedRight(k, name, conf, r) ==
    /\ name \notin get_names(Reg, k)
    /\ r.reg.b = builtin
    /\ DOMAIN r.reg.c[k] = DOMAIN custom[k] \cup {name}
    /\ \A kk \in Kinds : \A n \in DOMAIN r.reg.c[kk] :
          <<kk, n>> # <<k, name>> => n \in DOMAIN custom[kk] /\ r.reg.c[kk][n] = custom[kk][n]
    /\ \A kk \in Kinds \ {k} : DOMAIN r.reg.c[kk] = DOMAIN custom[kk]
    /\ r.reg.c[k][name] = [name |-> name, filename |-> name \o ".xml", path |-> Etc(k),
                           builtin |-> FALSE, default |-> TRUE, conf |-> conf]
    /\ r.obj = r.reg.c[k][name]
    /\ get_list(r.reg, k) = Sorted(get_names(Reg, k) \cup {name})
    /\ \A kk \in Kinds \ {k} : get_list(r.reg, kk) = get_list(Reg, kk)

\* C28: for every kind a create(name, conf) that succeeds registers, in
\* the custom tier only, an object of that name with builtin unset, default
\* set, the custom root as path and name.xml as filename; the list is the
\* one before plus the name, and every other entry of every kind is
\* unchanged.
C28_CreateRegisters ==
    \A k \in Kinds : \A name \in Names : \A conf \in Confs :
        new_obj(Reg, k, name, conf, OkEnv).err = OK
        => CreatedRight(k, name, conf, new_obj(Reg, k, name, conf, OkEnv))

\* a create succeeds beside an entry of each tier
C28_Witness ==
    \E k \in Kinds : \E name \in Stems : \E conf \in Confs :
        /\ new_obj(Reg, k, name, conf, OkEnv).err = OK
        /\ conf.ref # NoRef
        /\ \E kk \in Kinds : custom[kk] # Empty
        /\ \E kk \in Kinds : builtin[kk] # Empty
        /\ name \in DOMAIN new_obj(Reg, k, name, conf, OkEnv).reg.c[k]

\* the names of kind k that either tier of R holds
Known(R, k) == DOMAIN R.c[k] \cup DOMAIN R.b[k]

\* the result r of the report of the readable file stem.xml in the
\* subdirectory of the custom root of kind k, read with content conf
UnderCombinedName(k, stem, conf, r) ==
    /\ r.act \in {"new", "update"}
    /\ r.obj.name = SubDir \o "/" \o stem
    /\ (SubDir \o "/" \o stem) \in DOMAIN r.reg.c[k]
    /\ r.reg.c[k][SubDir \o "/" \o stem].name = SubDir \o "/" \o stem
    /\ export_config(r.reg.c[k][SubDir \o "/" \o stem]) = conf
    /\ r.reg.b = builtin
    /\ \A n \in Names \ {SubDir \o "/" \o stem} :
          /\ n \in DOMAIN r.reg.c[k] <=> n \in DOMAIN custom[k]
          /\ n \in DOMAIN custom[k] => r.reg.c[k][n] = custom[k][n]

\* the result r of the report of a readable file stem.xml elsewhere
UnderStem(k, stem, r) ==
    /\ r.act # "none" => r.obj.name = stem
    /\ Known(r.reg, k) \subseteq Known(Reg, k) \cup {stem}
    /\ r.act = "new" => stem \in Known(r.reg, k)

\* C29: for zones and policies, updateFromPath for a readable file in a
\* subdirectory of the custom root registers or updates the object under
\* the name <subdirectory>/<stem> and leaves the entry of the bare stem
\* alone; for a file directly in the custom root and for every flat kind
\* the name is the stem.
C29_CombinedName ==
    \A k \in Kinds : \A stem \in Stems :
        /\ k \in {"zones", "policies"} =>
              \A rd \in OkReads :
                  UnderCombinedName(k, stem, rd.conf,
                      update_from_path(Reg, k, Sub(k), stem, TRUE, rd, ""))
        /\ \A path \in {Etc(k), Usr(k)} \cup
                       (IF k \in {"zones", "policies"} THEN {} ELSE {Sub(k)}) :
              \A rd \in OkReads :
                  UnderStem(k, stem, update_from_path(Reg, k, path, stem, TRUE, rd, ""))

\* a policy or zone file in the subdirectory is registered beside the
\* custom entry of its bare stem, and another one is updated
C29_Witness ==
    \E k \in {"zones", "policies"} : \E rd \in OkReads :
        /\ "a" \in DOMAIN custom[k] /\ "d/a" \notin DOMAIN custom[k]
        /\ update_from_path(Reg, k, Sub(k), "a", TRUE, rd, "").act = "new"
        /\ "d/a" \in DOMAIN update_from_path(Reg, k, Sub(k), "a", TRUE, rd, "").reg.c[k]
        /\ "d/b" \in DOMAIN custom[k] /\ custom[k]["d/b"].conf # rd.conf
        /\ update_from_path(Reg, k, Sub(k), "b", TRUE, rd, "").act = "update"
        /\ update_from_path(Reg, k, Sub(k), "b", TRUE, rd, "").reg.c[k]["d/b"].conf = rd.conf

\* both tiers of every kind are empty, every list is empty and the three
\* references are cleared
Cleared ==
    /\ \A k \in Kinds : custom[k] = <<>> /\ builtin[k] = <<>>
    /\ \A k \in Kinds : get_list(Reg, k) = <<>>
    /\ firewalld_conf = "none" /\ policies = "none" /\ direct = "none"

\* C30: after cleanup, from any reachable state, both tiers of all six
\* kinds, the policies included, are empty, the list of every kind is
\* empty, and the references to the settings object, the lockdown policies
\* and the direct configuration are cleared.
C30_CleanupClears == [][Cleanup => Cleared']_vars

\* a state cleanup starts from: a custom policy, a builtin entry of
\* another kind, and the three references set
C30_Witness ==
    /\ custom["policies"] # <<>>
    /\ \E k \in Kinds \ {"policies"} : builtin[k] # <<>>
    /\ firewalld_conf = "set" /\ policies = "set" /\ direct = "set"
    /\ cleanup(Reg) = __init_vars
    /\ ~Cleared

\* the returned action of the call r tells what became of the namespace
ActionHonest(k, r) ==
    /\ r.act \in {"new", "update"} =>
          /\ r.obj.name \in get_names(r.reg, k)
          /\ get_obj(r.reg, k, r.obj.name).obj = r.obj
    /\ r.act = "remove" => r.obj.name \notin get_names(r.reg, k)
    /\ r.act = "none" =>
          /\ get_names(r.reg, k) = get_names(Reg, k)
          /\ \A n \in get_names(Reg, k) :
                get_obj(r.reg, k, n).obj = get_obj(Reg, k, n).obj

\* C31: whenever updateFromPath returns "new" or "update" with an object,
\* get of the object's name returns that object afterwards; whenever it
\* returns "remove" with an object, the object's name is no longer listed;
\* whenever it returns no action, get gives for every name what it gave
\* before. This holds for every path and registry, a custom file whose
\* name only the builtin tier holds included.
C31_ActionMatchesRegistry ==
    \A k \in Kinds : \A path \in Dirs(k) : \A stem \in Stems :
        /\ \A pick \in Picks(Reg, k, path, stem) :
              ActionHonest(k, update_from_path(Reg, k, path, stem, FALSE, BadRead, pick))
        /\ \A rd \in ReadsOf(path) :
              ActionHonest(k, update_from_path(Reg, k, path, stem, TRUE, rd, ""))

\* the directories a deleted path can lie in: the two roots of the kind,
\* a subdirectory of the custom root, and a directory outside both roots
AnyDirs(k) == {Etc(k), Usr(k), Sub(k), <<"tmp">>}

\* the entry e of a tier is the one whose own file is path/stem.xml
OwnFile(e, path, stem) == JoinFile(e.path, e.filename) = JoinFile(path, XmlName(stem))

\* the deletion r of path/stem.xml left every entry of another file alone
OthersKept(k, path, stem, r) ==
    /\ \A n \in DOMAIN custom[k] :
          ~OwnFile(custom[k][n], path, stem)
          => n \in DOMAIN r.reg.c[k] /\ r.reg.c[k][n] = custom[k][n]
    /\ \A n \in DOMAIN builtin[k] :
          ~OwnFile(builtin[k][n], path, stem)
          => n \in DOMAIN r.reg.b[k] /\ r.reg.b[k][n] = builtin[k][n]
    /\ \A kk \in Kinds \ {k} : r.reg.c[kk] = custom[kk] /\ r.reg.b[kk] = builtin[kk]

\* C32: a deletion event for a path changes at most the one entry whose
\* own file (path joined with filename) is that path: for zones and
\* policies a deleted file in a subdirectory of the custom root never drops
\* the entry of a same-named file in the root itself, and the reverse; for
\* the flat kinds a deleted path outside both roots drops nothing.
C32_DeletionHitsOwnEntry ==
    \A k \in Kinds : \A path \in AnyDirs(k) : \A stem \in Stems :
        \A pick \in Picks(Reg, k, path, stem) :
            OthersKept(k, path, stem,
                       update_from_path(Reg, k, path, stem, FALSE, BadRead, pick))

\* fullCheck with no candidates succeeds on the registry R
Consistent(R) == full_check_config(R, <<>>).err = OK

\* the call r, when it raised nothing, left a consistent registry
KeepsConsistent(r) == r.err = OK => Consistent(r.reg)

\* C33: referential consistency is an invariant: from a registry on which
\* fullCheck with no candidates succeeds, every create, setConfig, remove,
\* rename and loadDefaults that succeeds leads to a registry on which it
\* succeeds again, so no registered object refers to a name its reference
\* kind does not hold.
C33_ReferencesStayValid ==
    Consistent(Reg) =>
        \A k \in Kinds :
            /\ \A name \in Stems : \A conf \in Confs :
                  KeepsConsistent(new_obj(Reg, k, name, conf, OkEnv))
            /\ \A obj \in Pool(k) :
                  /\ \A conf \in Confs : KeepsConsistent(set_config(Reg, k, obj, conf, OkEnv))
                  /\ KeepsConsistent(remove_obj(Reg, k, obj, OkEnv))
                  /\ \A name \in Stems : KeepsConsistent(rename_obj(Reg, k, obj, name, OkEnv))
                  /\ KeepsConsistent(load_defaults(Reg, k, obj, OkEnv))

\* the directory and the stem of the file f the watcher reports
\* (a file name "d/<stem>.xml" names <stem>.xml in the directory d)
DirOf(f) ==
    IF \E st \in Stems : XmlName(st) = f[Len(f)] THEN SubSeq(f, 1, Len(f) - 1)
    ELSE SubSeq(f, 1, Len(f) - 1) \o <<SubDir>>
StemOf(f) ==
    IF \E st \in Stems : XmlName(st) = f[Len(f)]
    THEN CHOOSE st \in Stems : XmlName(st) = f[Len(f)]
    ELSE CHOOSE st \in Stems : XmlName(HierName(st)) = f[Len(f)]

\* the reports of the file f written with the content of obj are harmless
\* to the registry R the writing call left
WriteEchoHarmless(R, k, obj, f) ==
    \A rd \in OkReads :
        rd.conf = export_config(obj) =>
            /\ \A kk \in Kinds :
                  get_list(update_from_path(R, k, DirOf(f), StemOf(f), TRUE, rd, "").reg, kk)
                      = get_list(R, kk)
            /\ get_obj(update_from_path(R, k, DirOf(f), StemOf(f), TRUE, rd, "").reg,
                       k, obj.name).obj.default = obj.default

\* the reports of the file f moved away are harmless to the registry R the
\* removing call left
MoveEchoHarmless(R, k, f) ==
    \A pick \in Picks(R, k, DirOf(f), StemOf(f)) :
        /\ update_from_path(R, k, DirOf(f), StemOf(f), FALSE, BadRead, pick).act = "none"
        /\ update_from_path(R, k, DirOf(f), StemOf(f), FALSE, BadRead, pick).reg = R

\* C34: the watcher's echo of the registry's own file operations changes
\* nothing visible: after a create or setConfig that succeeds, the report
\* of the file written leaves every list as it is and the object's default
\* flag as stored; after a remove, rename or loadDefaults that succeeds,
\* the report of the file moved away returns no action and drops no entry
\* of either tier.
C34_EchoHarmless ==
    \A k \in Kinds :
        /\ \A name \in Stems : \A conf \in Confs :
              new_obj(Reg, k, name, conf, OkEnv).err = OK =>
                  WriteEchoHarmless(new_obj(Reg, k, name, conf, OkEnv).reg, k,
                      new_obj(Reg, k, name, conf, OkEnv).obj,
                      JoinFile(new_obj(Reg, k, name, conf, OkEnv).obj.path,
                               new_obj(Reg, k, name, conf, OkEnv).obj.filename))
        /\ \A obj \in Pool(k) : \A conf \in Confs :
              set_config(Reg, k, obj, conf, OkEnv).err = OK =>
                  WriteEchoHarmless(set_config(Reg, k, obj, conf, OkEnv).reg, k,
                      set_config(Reg, k, obj, conf, OkEnv).obj,
                      JoinFile(set_config(Reg, k, obj, conf, OkEnv).obj.path,
                               set_config(Reg, k, obj, conf, OkEnv).obj.filename))
        /\ \A obj \in Pool(k) : \A env \in FileEnvs :
              /\ remove_obj(Reg, k, obj, env).err = OK =>
                    MoveEchoHarmless(remove_obj(Reg, k, obj, env).reg, k,
                                     NameFile(obj.path, obj.name))
              /\ load_defaults(Reg, k, obj, env).err = OK =>
                    MoveEchoHarmless(load_defaults(Reg, k, obj, env).reg, k,
                                     NameFile(obj.path, obj.name))
              /\ \A name \in Stems :
                    rename_obj(Reg, k, obj, name, env).err = OK =>
                        MoveEchoHarmless(rename_obj(Reg, k, obj, name, env).reg, k,
                                         NameFile(obj.path, obj.name))

\* the custom tier of R holds under name an object that remove and rename accept
Eligible(R, k, name) ==
    /\ name \in DOMAIN R.c[k]
    /\ ~R.c[k][name].builtin /\ R.c[k][name].default
    /\ ~check_builtin(k, R.c[k][name])

\* every read of a file: it fails, or it yields any content and any flag
AllReads == {BadRead} \cup OkReads

\* C35: an object registered through create can be removed and renamed
\* (builtin unset, default set), and it stays so after every setConfig on
\* it, whatever the writer does, and after every report of its file as
\* created or modified, whatever the read yields.
C35_CreatedStaysEligible ==
    \A k \in Kinds :
        /\ \A name \in Names : \A conf \in Confs :
              new_obj(Reg, k, name, conf, OkEnv).err = OK
              => Eligible(new_obj(Reg, k, name, conf, OkEnv).reg, k, name)
        /\ \A name \in DOMAIN custom[k] :
              Eligible(Reg, k, name) =>
                  /\ \A conf \in Confs : \A env \in WriteEnvs :
                        Eligible(set_config(Reg, k, custom[k][name], conf, env).reg, k, name)
                  /\ \A rd \in AllReads :
                        Eligible(update_from_path(Reg, k,
                                     DirOf(JoinFile(custom[k][name].path, custom[k][name].filename)),
                                     StemOf(JoinFile(custom[k][name].path, custom[k][name].filename)),
                                     TRUE, rd, "").reg, k, name)

\* an eligible custom object is edited with other content, and its file is
\* then read with yet other content and without the default flag
C35_Witness ==
    \E k \in Kinds : \E name \in DOMAIN custom[k] : \E conf \in Confs : \E rd \in OkReads :
        /\ Eligible(Reg, k, name)
        /\ custom[k][name].path = Etc(k) /\ custom[k][name].filename = XmlName(name)
        /\ conf # custom[k][name].conf
        /\ set_config(Reg, k, custom[k][name], conf, OkEnv).err = OK
        /\ ~rd.dflt /\ rd.conf # custom[k][name].conf
        /\ update_from_path(Reg, k, Etc(k), name, TRUE, rd, "").act = "update"
        /\ update_from_path(Reg, k, Etc(k), name, TRUE, rd, "").reg.c[k][name].conf = rd.conf
        /\ update_from_path(Reg, k, Etc(k), name, TRUE, rd, "").reg.c[k][name].default

\* the custom objects of kind k are registered in R with the flags they have
FlagsKept(R, k) ==
    \A n \in DOMAIN custom[k] :
        /\ n \in DOMAIN R.c[k]
        /\ R.c[k][n].builtin = custom[k][n].builtin
        /\ R.c[k][n].default = custom[k][n].default

\* C36: after a resetToDefaults that failed and a replay that raised
\* nothing, every custom object registered before the call is registered
\* again with the builtin and default flags it had, so what could not be
\* removed or renamed before still cannot, and what could still can.
C36_ReplayKeepsFlags ==
    \A env \in ResetEnvs(Reg, firewalld_conf) :
        (/\ reset_defaults(Reg, firewalld_conf, env).restored
         /\ reset_defaults(Reg, firewalld_conf, env).rerr = OK)
        => \A k \in Kinds : FlagsKept(reset_defaults(Reg, firewalld_conf, env).reg, k)

\* C37: rename is the same for all six kinds: for an eligible custom
\* object, a rename to its own name or to another name that either tier
\* holds raises NAME_CONFLICT and leaves the registry and the object's
\* file as they were (no file operation at all).
C37_RenameConflictUniform ==
    \A k \in Kinds : \A obj \in Pool(k) : \A name \in get_names(Reg, k) :
        \A env \in AllEnvs :
            Removable(k, obj) =>
                rename_obj(Reg, k, obj, name, env) = Raise(Reg, NAME_CONFLICT, <<>>)

\* C38: in every reachable state and for every kind, the entry under key n
\* of either tier has name n, every custom entry has builtin unset and
\* every builtin entry has builtin set.
C38_TiersWellKeyed ==
    \A k \in Kinds :
        /\ \A n \in DOMAIN custom[k] : custom[k][n].name = n /\ ~custom[k][n].builtin
        /\ \A n \in DOMAIN builtin[k] : builtin[k][n].name = n /\ builtin[k][n].builtin

\* a builtin entry beside the custom copy an edit made of it, and a custom
\* entry under a combined name
C38_Witness ==
    /\ \E k \in Kinds : \E n \in DOMAIN builtin[k] \cap DOMAIN custom[k] :
          ~custom[k][n].default /\ custom[k][n].path = Etc(k)
    /\ \E k \in Kinds : \E n \in DOMAIN custom[k] : n \notin Stems

====
